---- MODULE Spec2Model ----
(***************************************************************************)
(* A model of the BusTub storage core of this repository: the ARC          *)
(* replacer, the buffer pool manager with its frame headers, the read and  *)
(* write page guards, and the B+ tree built on top of them.                *)
(***************************************************************************)
EXTENDS Integers, Sequences, FiniteSets, TLC

(***************************************************************************)
(* Bounds of the model.                                                    *)
(***************************************************************************)
NumFrames == 2
MaxPages == 3
MaxGuards == 3
MaxVal == 1
MaxOps == 7
NumThreads == 2
MaxConcOps == 5

INVALID_PAGE_ID == -1

Frames == 0 .. (NumFrames - 1)
Pages == 0 .. (MaxPages - 1)
PageIds == Pages \cup {INVALID_PAGE_ID}
Vals == 0 .. MaxVal
Guards == 1 .. MaxGuards
Threads == 1 .. NumThreads
NoThread == 0

(***************************************************************************)
(* Sequence and map helpers (std::list, std::unordered_map).               *)
(***************************************************************************)
Min(a, b) == IF a < b THEN a ELSE b

Max(a, b) == IF a > b THEN a ELSE b

PushFront(x, s) == <<x>> \o s

PopBack(s) == SubSeq(s, 1, Len(s) - 1)

Back(s) == s[Len(s)]

InSeq(x, s) == \E i \in 1 .. Len(s) : s[i] = x

RemoveAt(s, i) == SubSeq(s, 1, i - 1) \o SubSeq(s, i + 1, Len(s))

FirstIndex(x, s) == CHOOSE i \in 1 .. Len(s) : s[i] = x /\ \A j \in 1 .. (i - 1) : s[j] # x

\* list.erase(iterator) where the iterator map points at the node inserted last
\* for x, i.e. the occurrence closest to the front.
EraseFirst(x, s) == IF InSeq(x, s) THEN RemoveAt(s, FirstIndex(x, s)) ELSE s

MapPut(m, k, v) == [x \in DOMAIN m \cup {k} |-> IF x = k THEN v ELSE m[x]]

MapErase(m, k) == [x \in DOMAIN m \ {k} |-> m[x]]

EmptyMap == [x \in {} |-> 0]

\* Let([x \in {e} |-> body]) is body with x standing for the value of e: a
\* local variable of the code, computed where it is declared.
Let(f) == f[CHOOSE x \in DOMAIN f : TRUE]

(***************************************************************************)
(* ArcReplacer.  The replacer is a record r with the fields of the class;  *)
(* the two ghost iterator maps are kept as the sets of their keys.         *)
(***************************************************************************)
ArcReplacer(num_frames) ==
  [replacer_size |-> num_frames,
   mru |-> <<>>, mfu |-> <<>>, mru_ghost |-> <<>>, mfu_ghost |-> <<>>,
   alive_map |-> EmptyMap, ghost_map |-> EmptyMap,
   mru_ghost_iter |-> {}, mfu_ghost_iter |-> {},
   curr_size |-> 0, mru_target_size |-> 0]

FrameStatus(pid, fid, ev, st) ==
  [page_id |-> pid, frame_id |-> fid, evictable |-> ev, arc_status |-> st]

\* find_from_list_tail: the evictable entry closest to the back, as a set.
FindFromListTail(r, lst) ==
  LET ok(i) == lst[i] \in DOMAIN r.alive_map /\ r.alive_map[lst[i]].evictable IN
  Let([idx \in {{i \in 1 .. Len(lst) : ok(i)}} |->
     IF idx = {} THEN {} ELSE {lst[CHOOSE i \in idx : \A j \in idx : j <= i]}])

\* A choice of side that takes MFU first also when |mru| = mru_target_size_.
TryPickMfuAtTarget(r) ==
  Let([fromMru \in {FindFromListTail(r, r.mru)} |->
  Let([fromMfu \in {FindFromListTail(r, r.mfu)} |->
     IF Len(r.mru) <= r.mru_target_size
     THEN (IF fromMfu # {} THEN fromMfu ELSE fromMru)
     ELSE (IF fromMru # {} THEN fromMru ELSE fromMfu)])])

\* try_pick: MFU first when |mru| < mru_target_size_, else MRU first.
TryPick(r) ==
  Let([fromMru \in {FindFromListTail(r, r.mru)} |->
  Let([fromMfu \in {FindFromListTail(r, r.mfu)} |->
     IF Len(r.mru) < r.mru_target_size
     THEN (IF fromMfu # {} THEN fromMfu ELSE fromMru)
     ELSE (IF fromMru # {} THEN fromMru ELSE fromMfu)])])

\* An eviction that moves the entry to the ghost side without renaming its
\* status.
EvictKeepingStatus(r, v) ==
  Let([st \in {r.alive_map[v]} |->
     [r EXCEPT !.mru = EraseFirst(v, @),
               !.mfu = EraseFirst(v, @),
               !.mru_ghost = IF st.arc_status = "MRU" THEN PushFront(st.page_id, @) ELSE @,
               !.mru_ghost_iter = IF st.arc_status = "MRU" THEN @ \cup {st.page_id} ELSE @,
               !.mfu_ghost = IF st.arc_status = "MFU" THEN PushFront(st.page_id, @) ELSE @,
               !.mfu_ghost_iter = IF st.arc_status = "MFU" THEN @ \cup {st.page_id} ELSE @,
               !.ghost_map = MapPut(@, st.page_id, [st EXCEPT !.evictable = FALSE]),
               !.curr_size = IF st.evictable THEN @ - 1 ELSE @,
               !.alive_map = MapErase(@, v)]])

\* Evict with the victim already chosen.
EvictVictim(r, v) ==
  Let([st \in {r.alive_map[v]} |->
  Let([pid \in {st.page_id} |->
  Let([isMru \in {st.arc_status = "MRU"} |->
  Let([r1 \in {IF isMru
            THEN IF InSeq(v, r.mru)
                 THEN [r EXCEPT !.mru_ghost = PushFront(pid, @),
                                !.mru_ghost_iter = @ \cup {pid},
                                !.mru = EraseFirst(v, @)]
                 ELSE r
            ELSE IF InSeq(v, r.mfu)
                 THEN [r EXCEPT !.mfu_ghost = PushFront(pid, @),
                                !.mfu_ghost_iter = @ \cup {pid},
                                !.mfu = EraseFirst(v, @)]
                 ELSE r} |->
  Let([gst \in {[st EXCEPT !.arc_status = IF st.arc_status = "MFU" THEN "MFU_GHOST" ELSE "MRU_GHOST",
                        !.evictable = FALSE]} |->
     [r1 EXCEPT !.ghost_map = MapPut(@, pid, gst),
                !.curr_size = IF st.evictable THEN @ - 1 ELSE @,
                !.alive_map = MapErase(@, v)]])])])])])

\* ArcReplacer::Evict: the new replacer and the optional result (a set).
Evict(r) ==
  Let([pick \in {TryPick(r)} |->
     IF pick = {}
     THEN [rep |-> r, res |-> {}]
     ELSE Let([v \in {CHOOSE x \in pick : TRUE} |->
             [rep |-> EvictVictim(r, v), res |-> {v}]])])

\* The miss branch of RecordAccess after room has been made.
RecordMissInsert(r, fid, pid) ==
  Let([r1 \in {[r EXCEPT !.alive_map = MapPut(@, fid, FrameStatus(pid, fid, FALSE, "MRU")),
                      !.mru = PushFront(fid, @)]} |->
  Let([total \in {Len(r1.mru) + Len(r1.mfu) + Len(r1.mru_ghost) + Len(r1.mfu_ghost)} |->
     IF total - 1 = r1.replacer_size * 2 /\ r1.mfu_ghost # <<>>
     THEN Let([b \in {Back(r1.mfu_ghost)} |->
             [r1 EXCEPT !.ghost_map = MapErase(@, b),
                        !.mfu_ghost_iter = @ \ {b},
                        !.mfu_ghost = PopBack(@)]])
     ELSE IF Len(r1.mru) + Len(r1.mru_ghost) - 1 = r1.replacer_size
          THEN Let([b \in {Back(r1.mru_ghost)} |->
                  [r1 EXCEPT !.ghost_map = MapErase(@, b),
                             !.mru_ghost_iter = @ \ {b},
                             !.mru_ghost = PopBack(@)]])
          ELSE r1])])

RecordMiss(r, fid, pid) ==
  IF Len(r.mru) + Len(r.mfu) = r.replacer_size
  THEN Let([e \in {Evict(r)} |->
          IF e.res = {} THEN r ELSE RecordMissInsert(e.rep, fid, pid)])
  ELSE RecordMissInsert(r, fid, pid)

\* Resurrection of a ghost entry at the front of mfu_.
Resurrect(r, fid, pid, fromMru) ==
  Let([inIter \in {IF fromMru THEN pid \in r.mru_ghost_iter ELSE pid \in r.mfu_ghost_iter} |->
     IF inIter /\ fid \notin DOMAIN r.alive_map
     THEN Let([r1 \in {IF pid \in DOMAIN r.ghost_map
                    THEN [r EXCEPT !.alive_map =
                                      MapPut(@, fid, [r.ghost_map[pid] EXCEPT !.frame_id = fid,
                                                                            !.arc_status = "MFU",
                                                                            !.evictable = FALSE]),
                                   !.ghost_map = MapErase(@, pid)]
                    ELSE r} |->
          Let([r2 \in {IF fromMru
                    THEN [r1 EXCEPT !.mru_ghost = EraseFirst(pid, @), !.mru_ghost_iter = @ \ {pid}]
                    ELSE [r1 EXCEPT !.mfu_ghost = EraseFirst(pid, @), !.mfu_ghost_iter = @ \ {pid}]} |->
             [r2 EXCEPT !.mfu = PushFront(fid, @)]])])
     ELSE r])

\* A target that grows by one on every hit in mru_ghost_.
TargetUpByOne(r) == Min(r.replacer_size, r.mru_target_size + 1)

\* The new target size on a hit in mru_ghost_.
TargetUp(r) ==
  Min(r.replacer_size,
      r.mru_target_size +
        (IF Len(r.mru_ghost) >= Len(r.mfu_ghost) THEN 1 ELSE Len(r.mfu_ghost) \div Len(r.mru_ghost)))

\* A target that is lowered without the test against zero.
TargetDownUnclamped(r) ==
  r.mru_target_size -
    (IF Len(r.mfu_ghost) >= Len(r.mru_ghost) THEN 1 ELSE Len(r.mru_ghost) \div Len(r.mfu_ghost))

\* The new target size on a hit in mfu_ghost_.
TargetDown(r) ==
  IF Len(r.mfu_ghost) >= Len(r.mru_ghost)
  THEN (IF r.mru_target_size > 0 THEN r.mru_target_size - 1 ELSE r.mru_target_size)
  ELSE Max(0, r.mru_target_size - (Len(r.mru_ghost) \div Len(r.mfu_ghost)))

\* ArcReplacer::RecordAccess.
RecordAccess(r, fid, pid) ==
  IF pid \notin DOMAIN r.ghost_map /\ fid \notin DOMAIN r.alive_map
  THEN RecordMiss(r, fid, pid)
  ELSE Let([status \in {IF fid \in DOMAIN r.alive_map
                     THEN r.alive_map[fid].arc_status
                     ELSE r.ghost_map[pid].arc_status} |->
          CASE status = "MRU" ->
                 IF InSeq(fid, r.mru)
                 THEN [r EXCEPT !.mru = EraseFirst(fid, @),
                                !.mfu = PushFront(fid, @),
                                !.alive_map[fid].arc_status = "MFU"]
                 ELSE r
            [] status = "MFU" ->
                 IF InSeq(fid, r.mfu)
                 THEN [r EXCEPT !.mfu = PushFront(fid, EraseFirst(fid, @))]
                 ELSE r
            [] status = "MRU_GHOST" ->
                 Resurrect([r EXCEPT !.mru_target_size = TargetUp(r)], fid, pid, TRUE)
            [] OTHER ->
                 Resurrect([r EXCEPT !.mru_target_size = TargetDown(r)], fid, pid, FALSE)])

\* SetEvictable without the test of the flag's old value: every call with
\* set_evictable adds one to curr_size_, every call without takes one away.
SetEvictableIgnoringOldFlag(r, fid, ev) ==
  IF fid \in DOMAIN r.alive_map
  THEN [r EXCEPT !.alive_map[fid].evictable = ev,
                 !.curr_size = IF ev THEN @ + 1 ELSE Max(@ - 1, 0)]
  ELSE r

\* ArcReplacer::SetEvictable.
SetEvictable(r, fid, ev) ==
  IF fid \in DOMAIN r.alive_map
  THEN Let([old \in {r.alive_map[fid].evictable} |->
          [r EXCEPT !.alive_map[fid].evictable = ev,
                    !.curr_size = IF old /\ ~ev THEN @ - 1
                                  ELSE IF ~old /\ ev THEN @ + 1 ELSE @]])
  ELSE r

\* ArcReplacer::Remove.
Remove(r, fid) ==
  IF fid \notin DOMAIN r.alive_map
  THEN r
  ELSE Let([st \in {r.alive_map[fid]} |->
       Let([r1 \in {[r EXCEPT !.curr_size = IF st.evictable THEN @ - 1 ELSE @,
                           !.alive_map = MapErase(@, fid)]} |->
          CASE st.arc_status = "MFU" -> [r1 EXCEPT !.mfu = EraseFirst(fid, @)]
            [] st.arc_status = "MRU" -> [r1 EXCEPT !.mru = EraseFirst(fid, @)]
            [] OTHER -> r1])])

(***************************************************************************)
(* FrameHeader and BufferPoolManager.  A pool state s is a record of the   *)
(* members of the class: pt (page_table_), free (free_frames_), fr         *)
(* (frames_), next (next_page_id_), rep (replacer_) and disk (the pages    *)
(* behind the disk scheduler).                                             *)
(***************************************************************************)
FrameHeader ==
  [page_id |-> INVALID_PAGE_ID, pin_count |-> 0, is_dirty |-> FALSE, data |-> 0]

\* FrameHeader::Reset: zero the bytes, pin_count_ = 0, is_dirty_ = false.
Reset(fr, f) ==
  [fr EXCEPT ![f].data = 0, ![f].pin_count = 0, ![f].is_dirty = FALSE]

BufferPoolManager(num_frames) ==
  [pt |-> EmptyMap,
   free |-> [i \in 1 .. num_frames |-> i - 1],
   fr |-> [f \in 0 .. (num_frames - 1) |-> FrameHeader],
   next |-> 0,
   rep |-> ArcReplacer(num_frames),
   disk |-> [p \in PageIds |-> 0]]

\* DiskScheduler::Write and DiskScheduler::Read, both synchronous.
DiskWrite(disk, p, bytes) == IF p \in DOMAIN disk THEN [disk EXCEPT ![p] = bytes] ELSE disk

DiskRead(disk, p) == disk[p]

\* BufferPoolManager::FlushPage: write the frame, then Reset() it.
FlushPage(s, p) ==
  IF p \in DOMAIN s.pt
  THEN Let([f \in {s.pt[p]} |->
          [s EXCEPT !.disk = DiskWrite(@, p, s.fr[f].data),
                    !.fr = Reset(@, f)]])
  ELSE s

\* The frames in index order whose page_id_ is p ("for (auto &item : frames_)").
FirstFrameOf(fr, p) ==
  Let([m \in {{f \in DOMAIN fr : fr[f].page_id = p}} |->
     IF m = {} THEN {} ELSE {CHOOSE f \in m : \A g \in m : f <= g}])

\* The loop that pins the first frame whose page_id_ is p.
PinPage(fr, p) ==
  Let([m \in {FirstFrameOf(fr, p)} |->
     IF m = {} THEN fr
     ELSE Let([f \in {CHOOSE x \in m : TRUE} |->   [fr EXCEPT ![f].pin_count = @ + 1]])])

\* BufferPoolManager::NewPageById (called with a non-empty free list).
NewPageById(s, p) ==
  IF s.free # <<>>
  THEN Let([f \in {Head(s.free)} |->
          [s EXCEPT !.free = Tail(@),
                    !.pt = MapPut(@, p, f),
                    !.fr[f].page_id = p]])
  ELSE s

\* The page-table entries that name frame f.
EntriesOf(pt, f) == {p \in DOMAIN pt : pt[p] = f}

\* BufferPoolManager::Cut: give the frame to the free list, flush the page
\* the frame names, erase one page-table entry of the frame, reset the frame.
Cut(s, f) ==
  Let([s1 \in {[s EXCEPT !.free = PushFront(f, @)]} |->
  Let([s2 \in {FlushPage(s1, s1.fr[f].page_id)} |->
  Let([es \in {EntriesOf(s2.pt, f)} |->
  Let([s3 \in {IF es = {} THEN s2
            ELSE [s2 EXCEPT !.pt = MapErase(@, CHOOSE p \in es : TRUE)]} |->
     [s3 EXCEPT !.fr = [Reset(@, f) EXCEPT ![f].page_id = INVALID_PAGE_ID]]])])])])

\* BufferPoolManager::NewPage: the new state and the returned page id.
NewPage(s) ==
  LET install(t) ==
        Let([f \in {Head(t.free)} |->
           [t EXCEPT !.next = @ + 1,
                     !.free = Tail(@),
                     !.fr[f].page_id = t.next,
                     !.pt = MapPut(@, t.next, f)]]) IN
     IF s.free = <<>>
     THEN Let([e \in {Evict(s.rep)} |->
             IF e.res = {}
             THEN [st |-> s, res |-> INVALID_PAGE_ID, victim |-> {}]
             ELSE [st |-> install(Cut([s EXCEPT !.rep = e.rep], CHOOSE v \in e.res : TRUE)),
                   res |-> s.next, victim |-> e.res]])
     ELSE [st |-> install(s), res |-> s.next, victim |-> {}]

\* A DeletePage that gives the frame to the free list and leaves the
\* page-table entry behind.
DeletePageKeepingEntry(s, p) ==
  IF p \notin DOMAIN s.pt
  THEN [st |-> s, res |-> TRUE]
  ELSE Let([f \in {s.pt[p]} |->
          IF s.fr[f].pin_count # 0
          THEN [st |-> s, res |-> FALSE]
          ELSE [st |-> [s EXCEPT !.fr = [Reset(@, f) EXCEPT ![f].page_id = INVALID_PAGE_ID],
                                 !.free = PushFront(f, @)],
                res |-> TRUE]])

\* BufferPoolManager::DeletePage: the new state and the returned flag.
DeletePage(s, p) ==
  IF p \notin DOMAIN s.pt
  THEN [st |-> s, res |-> TRUE]
  ELSE Let([f \in {s.pt[p]} |->
          IF s.fr[f].pin_count # 0
          THEN [st |-> s, res |-> FALSE]
          ELSE [st |-> [s EXCEPT !.fr = [Reset(@, f) EXCEPT ![f].page_id = INVALID_PAGE_ID],
                                 !.free = PushFront(f, @),
                                 !.pt = MapErase(@, p)],
                res |-> TRUE]])

\* The part of CheckedReadPage / CheckedWritePage that runs before the guard
\* is constructed: the new state, the frame handed to the guard (a set, empty
\* for std::nullopt) and the frame Evict() returned, if it was called.  isWrite selects the write variant, which differs
\* in the frame id it passes to RecordAccess on the eviction path.
FetchPage(s, p, isWrite) ==
  IF ~isWrite /\ p = INVALID_PAGE_ID
  THEN [st |-> s, frame |-> {}, victim |-> {}]
  ELSE IF p \in DOMAIN s.pt
  THEN [st |-> [s EXCEPT !.fr = PinPage(@, p),
                         !.rep = RecordAccess(@, s.pt[p], p)],
        frame |-> {s.pt[p]}, victim |-> {}]
  ELSE IF s.free # <<>>
  THEN Let([s1 \in {NewPageById(s, p)} |->
       Let([f \in {s1.pt[p]} |->
       Let([s2 \in {[s1 EXCEPT !.fr[f].data = DiskRead(s1.disk, p),
                            !.rep = RecordAccess(@, f, p)]} |->
          [st |-> [s2 EXCEPT !.fr = PinPage(@, p)], frame |-> {f}, victim |-> {}]])])])
  ELSE Let([e \in {Evict(s.rep)} |->
          IF e.res = {}
          THEN [st |-> s, frame |-> {}, victim |-> {}]
          ELSE Let([v \in {CHOOSE x \in e.res : TRUE} |->
               Let([s1 \in {Cut([s EXCEPT !.rep = e.rep], v)} |->
               Let([s2 \in {[s1 EXCEPT !.fr[v].data = DiskRead(s1.disk, p)]} |->
                   \* page_table_[page_id] on a missing key inserts frame id 0
               Let([s3 \in {IF isWrite
                         THEN [s2 EXCEPT !.pt = MapPut(@, p, 0),
                                         !.rep = RecordAccess(@, 0, p)]
                         ELSE [s2 EXCEPT !.rep = RecordAccess(@, v, p)]} |->
               Let([s4 \in {NewPageById(s3, p)} |->
                  [st |-> [s4 EXCEPT !.fr = PinPage(@, p)], frame |-> {v}, victim |-> {v}]])])])])])])

\* BufferPoolManager::FlushAllPages.  A dirty frame that no page-table entry
\* names is written under an uninitialised page id: junk stands for it.
RECURSIVE FlushAllFrom(_, _, _)
FlushAllFrom(s, f, junk) ==
  IF f \notin DOMAIN s.fr
  THEN s
  ELSE IF s.fr[f].is_dirty
       THEN Let([es \in {EntriesOf(s.pt, f)} |->
            Let([p \in {IF es = {} THEN junk ELSE CHOOSE x \in es : TRUE} |->
               FlushAllFrom([s EXCEPT !.disk = DiskWrite(@, p, s.fr[f].data),
                                      !.fr = Reset(@, f)], f + 1, junk)])])
       ELSE FlushAllFrom(s, f + 1, junk)

FlushAllPages(s, junk) == FlushAllFrom(s, 0, junk)

\* BufferPoolManager::GetPinCount as a set (empty for std::nullopt).
GetPinCount(s, p) == IF p \in DOMAIN s.pt THEN {s.fr[s.pt[p]].pin_count} ELSE {}

(***************************************************************************)
(* ReadPageGuard and WritePageGuard.  A guard is a record of the members   *)
(* of the class: frame is the frame_ pointer (a set, empty for null), bpm  *)
(* tells whether bpm_latch_ (and with it replacer_ and disk_scheduler_) is *)
(* non-null, lock is the frame whose rwlatch_ the lock_ member owns.       *)
(***************************************************************************)
DefaultGuard ==
  [kind |-> "none", page_id |-> INVALID_PAGE_ID, frame |-> {}, bpm |-> FALSE,
   lock |-> {}, is_valid |-> FALSE]

\* The guard the constructors build (page_guard.cpp, both flavours).
NewGuard(kind, p, f) ==
  [kind |-> kind, page_id |-> p, frame |-> {f}, bpm |-> TRUE, lock |-> {f},
   is_valid |-> TRUE]

\* ReadPageGuard::Drop / WritePageGuard::Drop on guard gd in pool state s.
\* Both branches on bpm_latch_ do the same to the frame.
Drop(s, gd) ==
  Let([s1 \in {IF gd.frame = {}
            THEN s
            ELSE Let([f \in {CHOOSE x \in gd.frame : TRUE} |->
                 Let([fr1 \in {IF s.fr[f].pin_count # 0
                            THEN [s.fr EXCEPT ![f].pin_count = @ - 1]
                            ELSE s.fr} |->
                 Let([fr2 \in {IF gd.kind = "w" THEN [fr1 EXCEPT ![f].is_dirty = TRUE] ELSE fr1} |->
                    [s EXCEPT !.fr = fr2, !.rep = SetEvictable(@, f, TRUE)]])])])} |->
     [st |-> s1, gd |-> [gd EXCEPT !.lock = {}, !.is_valid = FALSE]]])

\* operator=(Guard &&that): what is left in the moved-from guard.
MovedFrom(gd) == [gd EXCEPT !.frame = {}, !.bpm = FALSE, !.lock = {}]

\* operator=(Guard &&that): what the destination holds afterwards.
MovedTo(that) == that

(***************************************************************************)
(* State of the buffer pool and of the guards its callers hold.            *)
(*   lastw    the bytes last written to a page through a write guard       *)
(*   victim   the frame Evict() handed to the pool in the last step        *)
(*   trapped  the process was terminated (BUSTUB_ENSURE, crash)            *)
(*   ops      the number of calls made so far (bounded by MaxOps)          *)
(*   pc       where each thread stands inside a call of the pool           *)
(*   bpm_latch  the thread that holds the pool's mutex, or NoThread        *)
(*   NumTombs   the NumTombs template argument of the constructed tree,    *)
(*              or NotConstructed                                          *)
(*   bpt        the index's pages as the tree sees them through the pool:  *)
(*              the header's root_page_id_, the typed pages, the page ids  *)
(*              handed out and deallocated, the pages the pool can still   *)
(*              allocate during a call                                     *)
(*   contents   the key/value pairs the callers have put in and not taken  *)
(*              out                                                        *)
(*   inserted   every key Insert accepted so far                           *)
(*   phase      whether the calls so far are inserts of distinct keys      *)
(*              ("ins"), those followed by removals of them ("del"), or    *)
(*              anything else ("mixed")                                    *)
(*   tree_ops   number of calls made on the tree                           *)
(*   call       the last call made on the tree: the operation, its         *)
(*              arguments, what a lookup of the key had to return before   *)
(*              it, what the call returned and whether the pool refused it *)
(*              a page                                                     *)
(*   before     bpt as it was when that call was made                      *)
(***************************************************************************)
VARIABLES page_table, free_frames, frames, next_page_id, replacer, disk,
          guards, lastw, victim, trapped, ops, pc, bpm_latch,
          NumTombs, bpt, contents, inserted, phase, tree_ops, call, before

poolVars == <<page_table, free_frames, frames, next_page_id, replacer, disk,
              guards, lastw, victim, trapped, ops>>

concVars == <<pc, bpm_latch>>

treeVars == <<NumTombs, bpt, contents, inserted, phase, tree_ops, call, before>>

vars == <<poolVars, concVars, treeVars>>

\* The pool's members as one record, and back.
PoolState ==
  [pt |-> page_table, free |-> free_frames, fr |-> frames, next |-> next_page_id,
   rep |-> replacer, disk |-> disk]

SetPool(s) ==
  /\ page_table' = s.pt
  /\ free_frames' = s.free
  /\ frames' = s.fr
  /\ next_page_id' = s.next
  /\ replacer' = s.rep
  /\ disk' = s.disk

\* The pool after construction, but for its replacer and the count of calls.
PoolInitButReplacer ==
  /\ page_table = BufferPoolManager(NumFrames).pt
  /\ free_frames = BufferPoolManager(NumFrames).free
  /\ frames = BufferPoolManager(NumFrames).fr
  /\ next_page_id = BufferPoolManager(NumFrames).next
  /\ disk = BufferPoolManager(NumFrames).disk
  /\ guards = [g \in Guards |-> DefaultGuard]
  /\ lastw = EmptyMap
  /\ victim = {}
  /\ trapped = FALSE

PoolInit ==
  /\ PoolInitButReplacer
  /\ replacer = BufferPoolManager(NumFrames).rep
  /\ ops = 0

\* No tree has been constructed on the pool yet.
NotConstructed == -2

\* The page the tests allocate first and hand to the tree as its header page.
HEADER_PAGE_ID == 0

\* The bytes of a frame after FrameHeader::Reset, seen through the page
\* classes: every field zero, no slot in use.
ZeroPage ==
  [type |-> "invalid", size |-> 0, max_size |-> 0, page_id |-> 0, father |-> 0,
   next |-> 0, pre |-> 0, tombs |-> <<>>, keys |-> <<>>, vals |-> <<>>,
   is_begin |-> FALSE, is_update |-> FALSE, before_first_key |-> 0,
   need_deep_update |-> FALSE]

\* Before the tree's constructor has run: the header page is allocated and
\* nothing else.
NoCall == [op |-> "none", key |-> 0, value |-> 0, was |-> <<>>, ret |-> TRUE, denied |-> FALSE]

TreeInit ==
  /\ NumTombs = NotConstructed
  /\ bpt = [root |-> INVALID_PAGE_ID, pages |-> <<>>, freed |-> {}, fault |-> {},
            avail |-> {}, denied |-> FALSE, leaf_max_size_ |-> 0,
            internal_max_size_ |-> 0]
  /\ before = bpt
  /\ call = NoCall
  /\ contents = EmptyMap
  /\ inserted = {}
  /\ phase = "ins"
  /\ tree_ops = 0

\* A thread that is not inside a call.
Idle == [op |-> "idle", g |-> 0, kind |-> "none", page |-> INVALID_PAGE_ID, frame |-> {}]

ConcInit ==
  /\ pc = [t \in Threads |-> Idle]
  /\ bpm_latch = NoThread

\* Every call of the single-threaded program starts in a running process and
\* counts as one operation.
Call ==
  /\ ~trapped
  /\ ops < MaxOps
  /\ ops' = ops + 1
  /\ UNCHANGED <<concVars, treeVars>>

\* A slot that stands for a variable not yet declared is taken lowest first.
Fresh(g) == guards[g].kind = "none" /\ \A h \in Guards : guards[h].kind = "none" => g <= h

\* A guard that holds a pin: constructed, not moved from, not dropped.
Live(g) == guards[g].is_valid /\ guards[g].frame # {}

\* std::shared_mutex: can the latch of frame f be taken in this mode now?
LatchFree(f, kind) ==
  \A h \in Guards :
     f \in guards[h].lock => (kind = "r" /\ guards[h].kind = "r")

\* bpm->NewPage()
DoNewPage ==
  /\ Call
  /\ next_page_id < MaxPages
  /\ LET r == NewPage(PoolState)
     IN /\ SetPool(r.st)
        /\ victim' = r.victim
  /\ UNCHANGED <<guards, lastw, trapped>>

\* bpm->DeletePage(p)
DoDeletePage(p) ==
  /\ Call
  /\ p < next_page_id
  /\ LET r == DeletePage(PoolState, p)
     IN /\ SetPool(r.st)
        /\ lastw' = IF r.res THEN MapErase(lastw, p) ELSE lastw
  /\ victim' = {}
  /\ UNCHANGED <<guards, trapped>>

\* bpm->FlushPage(p)
DoFlushPage(p) ==
  /\ Call
  /\ p < next_page_id
  /\ SetPool(FlushPage(PoolState, p))
  /\ victim' = {}
  /\ UNCHANGED <<guards, lastw, trapped>>

\* bpm->FlushAllPages()
DoFlushAllPages ==
  /\ Call
  /\ \E junk \in PageIds \cup {MaxPages} :
        SetPool(FlushAllPages(PoolState, junk))
  /\ victim' = {}
  /\ UNCHANGED <<guards, lastw, trapped>>

\* g = bpm->CheckedReadPage(p) / bpm->CheckedWritePage(p), the returned guard
\* move-assigned (or move-constructed, when g is fresh) into g: the guard is
\* built while g still holds what it held, then g.Drop() runs, then the
\* members are transferred.  A call that would wait for the latch for ever
\* never returns and is not a step.
Acquire(g, kind, p) ==
  /\ Call
  /\ guards[g].kind = kind \/ Fresh(g)
  /\ p = INVALID_PAGE_ID \/ p < next_page_id
  /\ \E r \in {FetchPage(PoolState, p, kind = "w")} :
        /\ victim' = r.victim
        /\ IF r.frame = {}
           THEN /\ SetPool(r.st)
                /\ UNCHANGED guards
           ELSE \E f \in r.frame :
                \E d \in {Drop([r.st EXCEPT !.rep = RecordAccess(@, f, p)], guards[g])} :
                   /\ LatchFree(f, kind)
                   /\ SetPool(d.st)
                   /\ guards' = [guards EXCEPT ![g] = MovedTo(NewGuard(kind, p, f))]
  /\ UNCHANGED <<lastw, trapped>>

\* dst = std::move(src)
Move(dst, src) ==
  /\ Call
  /\ dst # src
  /\ guards[src].kind # "none"
  /\ guards[dst].kind = guards[src].kind \/ Fresh(dst)
  /\ LET d == Drop(PoolState, guards[dst])
     IN /\ SetPool(d.st)
        /\ guards' = [guards EXCEPT ![dst] = MovedTo(guards[src]),
                                    ![src] = MovedFrom(guards[src])]
  /\ victim' = {}
  /\ UNCHANGED <<lastw, trapped>>

\* g.Drop()
DoDrop(g) ==
  /\ Call
  /\ guards[g].kind # "none"
  /\ LET d == Drop(PoolState, guards[g])
     IN /\ SetPool(d.st)
        /\ guards' = [guards EXCEPT ![g] = d.gd]
  /\ victim' = {}
  /\ UNCHANGED <<lastw, trapped>>

\* The destructor of g at the end of its scope; the slot then stands for a
\* variable not yet declared.
Destroy(g) ==
  /\ Call
  /\ guards[g].kind # "none"
  /\ SetPool(Drop(PoolState, guards[g]).st)
  /\ guards' = [guards EXCEPT ![g] = DefaultGuard]
  /\ victim' = {}
  /\ UNCHANGED <<lastw, trapped>>

\* BUSTUB_ENSURE(is_valid_, ...) at the head of GetPageId, GetData, GetDataMut
\* and IsDirty: does the call on guard gd terminate the process?
EnsureTraps(gd) == ~gd.is_valid

\* GetData, GetDataMut and IsDirty go through frame_ after the check.
DerefsNull(gd) == gd.is_valid /\ gd.frame = {}

\* memcpy(g.GetDataMut(), v)
WriteData(g, v) ==
  /\ Call
  /\ guards[g].kind = "w"
  /\ ~EnsureTraps(guards[g])
  /\ ~DerefsNull(guards[g])
  /\ LET f == CHOOSE x \in guards[g].frame : TRUE
     IN /\ frames' = [frames EXCEPT ![f].data = v]
        /\ lastw' = MapPut(lastw, guards[g].page_id, v)
  /\ victim' = {}
  /\ UNCHANGED <<page_table, free_frames, next_page_id, replacer, disk, guards, trapped>>

\* An accessor called on a guard whose is_valid_ is false: the process ends.
UseInvalid(g) ==
  /\ Call
  /\ guards[g].kind # "none"
  /\ EnsureTraps(guards[g])
  /\ trapped' = TRUE
  /\ UNCHANGED <<page_table, free_frames, frames, next_page_id, replacer, disk,
                 guards, lastw, victim>>

\* GetData, GetDataMut or IsDirty called on a guard that passes the check but
\* has a null frame_: a null dereference, which ends the process or goes
\* unnoticed.
UseNull(g) ==
  /\ Call
  /\ DerefsNull(guards[g])
  /\ trapped' \in BOOLEAN
  /\ UNCHANGED <<page_table, free_frames, frames, next_page_id, replacer, disk,
                 guards, lastw, victim>>

PoolNext ==
  \/ DoNewPage
  \/ \E p \in Pages : DoDeletePage(p)
  \/ \E p \in Pages : DoFlushPage(p)
  \/ DoFlushAllPages
  \/ \E g \in Guards, kind \in {"r", "w"}, p \in PageIds : Acquire(g, kind, p)
  \/ \E dst \in Guards, src \in Guards : Move(dst, src)
  \/ \E g \in Guards : DoDrop(g)
  \/ \E g \in Guards : Destroy(g)
  \/ \E g \in Guards, v \in Vals \ {0} : WriteData(g, v)
  \/ \E g \in Guards : UseInvalid(g)
  \/ \E g \in Guards : UseNull(g)

Init == PoolInit /\ ConcInit /\ TreeInit

Next == PoolNext

Spec == Init /\ [][Next]_vars

(***************************************************************************)
(* Claims about the buffer pool and the page guards, checked under Spec.   *)
(***************************************************************************)
\* The live guards that reference frame f.
GuardsOn(f) == {g \in Guards : Live(g) /\ f \in guards[g].frame}

\* Frame f holds a page: some page-table entry names it.
Resident(f) == \E p \in DOMAIN page_table : page_table[p] = f

\* C1: a frame with pin_count > 0 is never evicted: no step of the pool takes
\* as eviction victim a frame that is pinned or on which a guard is live.
C1_PinnedFrameNeverEvicted ==
  [][\A f \in victim' : frames[f].pin_count = 0 /\ GuardsOn(f) = {}]_vars

\* C2: for every resident frame, pin_count equals the number of live read and
\* write guards that reference the frame.
C2_PinCountIsLiveGuards ==
  \A f \in Frames : Resident(f) => frames[f].pin_count = Cardinality(GuardsOn(f))

\* C3: when a frame is evicted, the page it held has on disk the bytes last
\* written to it through a write guard, so reading the page again after the
\* eviction returns those bytes.
C3_EvictionPersistsLastWrite ==
  [][\A f \in victim' :
        LET p == frames[f].page_id
        IN  (p \in Pages /\ p \in DOMAIN lastw /\ p \in DOMAIN page_table /\ page_table[p] = f)
               => DiskRead(disk', p) = lastw[p]]_vars

\* Every frame of the pool is pinned by a live guard.
AllFramesPinned == \A f \in Frames : GuardsOn(f) # {}

\* C4: when every frame is pinned by a live guard, NewPage returns the invalid
\* page id, CheckedReadPage and CheckedWritePage of a page that is not cached
\* return no guard, and the page table and the frames are unchanged.
C4_ExhaustedPoolRefuses ==
  [][AllFramesPinned =>
       /\ DoNewPage => (next_page_id' = next_page_id /\ UNCHANGED <<page_table, frames>>)
       /\ \A g \in Guards, kind \in {"r", "w"}, p \in PageIds \ DOMAIN page_table :
             Acquire(g, kind, p) => UNCHANGED <<page_table, frames, guards>>]_vars

\* C5: a move leaves the moved-from guard explicitly invalid, and releasing
\* the moved-from guard changes neither the frames nor the replacer.
C5_MovedFromIsInvalidAndInert ==
  [][\A dst \in Guards, src \in Guards :
        Move(dst, src) =>
          /\ ~guards'[src].is_valid
          /\ Drop(PoolState', guards'[src]).st = PoolState']_vars

\* C6: an accessor called on a guard that was moved from or dropped traps.
C6_InvalidGuardTraps ==
  \A g \in Guards : (guards[g].kind # "none" /\ ~Live(g)) => EnsureTraps(guards[g])

\* C7: while a read guard on a page is live, no write guard on that page is
\* live and the bytes seen through the read guard do not change.
C7_ReadGuardSeesStableBytes ==
  [][\A g \in Guards :
        (guards[g].kind = "r" /\ Live(g) /\ guards'[g] = guards[g]) =>
           /\ \A f \in guards[g].frame : frames'[f].data = frames[f].data
           /\ \A h \in Guards :
                 (guards'[h].kind = "w" /\ guards'[h].is_valid /\ guards'[h].frame # {})
                    => guards'[h].page_id # guards[g].page_id]_vars

(***************************************************************************)
(* Threads that call the pool concurrently.  A call is split where it can  *)
(* block: at the std::unique_lock on bpm_latch_ and at the frame's         *)
(* rwlatch_ in the guard's constructor.                                    *)
(***************************************************************************)
\* The thread that declares guard variable g.
Owner(g) == ((g - 1) % NumThreads) + 1

\* A variable of thread t not yet declared, taken lowest first.
FreshOf(t, g) ==
  /\ Owner(g) = t
  /\ guards[g].kind = "none"
  /\ \A h \in Guards : (Owner(h) = t /\ guards[h].kind = "none") => g <= h

\* Thread t starts a call.
ThreadCall(t) ==
  /\ ~trapped
  /\ ops < MaxConcOps
  /\ ops' = ops + 1
  /\ pc[t].op = "idle"
  /\ UNCHANGED treeVars

\* A lock object that outlives the scope it is declared in leaves the caller
\* holding the mutex.
KeepBpm(t) == t

\* The unique_lock on bpm_latch_ that Checked*Page takes around
\* pin_count_.fetch_add(1) goes out of scope at the break that follows: the
\* mutex has no holder when the guard's constructor runs.
UnlockBpm(t) == NoThread

\* What the return of a call leaves of the mutex: a lock held by the
\* returning thread is released.
ReturnBpm(t) == IF bpm_latch = t THEN NoThread ELSE bpm_latch

\* Thread t: bpm->NewPage(); its critical sections need the pool's mutex.
ThreadNewPage(t) ==
  /\ ThreadCall(t)
  /\ bpm_latch = NoThread
  /\ next_page_id < MaxPages
  /\ LET r == NewPage(PoolState)
     IN /\ SetPool(r.st)
        /\ victim' = r.victim
  /\ UNCHANGED <<guards, lastw, trapped, pc, bpm_latch>>

\* Thread t calls bpm->CheckedReadPage(p) / CheckedWritePage(p) to initialise g.
CheckedPageCall(t, g, kind, p) ==
  /\ ThreadCall(t)
  /\ FreshOf(t, g)
  /\ p < next_page_id
  /\ pc' = [pc EXCEPT ![t] = [op |-> "fetch", g |-> g, kind |-> kind, page |-> p, frame |-> {}]]
  /\ victim' = {}
  /\ UNCHANGED <<page_table, free_frames, frames, next_page_id, replacer, disk,
                 guards, lastw, trapped, bpm_latch>>

\* The body of Checked*Page up to the construction of the guard: it locks the
\* pool's mutex to pin the frame, and returns std::nullopt without a frame.
CheckedPageBody(t) ==
  /\ pc[t].op = "fetch"
  /\ bpm_latch = NoThread
  /\ \E r \in {FetchPage(PoolState, pc[t].page, pc[t].kind = "w")} :
        /\ SetPool(r.st)
        /\ victim' = r.victim
        /\ IF r.frame = {}
           THEN /\ pc' = [pc EXCEPT ![t] = Idle]
                /\ bpm_latch' = NoThread
           ELSE /\ pc' = [pc EXCEPT ![t] = [@ EXCEPT !.op = "ctor", !.frame = r.frame]]
                /\ bpm_latch' = UnlockBpm(t)
  /\ UNCHANGED <<guards, lastw, trapped, ops, treeVars>>

\* ReadPageGuard / WritePageGuard constructor: waits for the frame's rwlatch_,
\* then RecordAccess and is_valid_ = true; the call returns the guard, and
\* the thread remembers the page of the guard it was given.
GuardCtor(t) ==
  /\ pc[t].op = "ctor"
  /\ LET f == CHOOSE x \in pc[t].frame : TRUE
     IN /\ LatchFree(f, pc[t].kind)
        /\ replacer' = RecordAccess(replacer, f, pc[t].page)
        /\ guards' = [guards EXCEPT ![pc[t].g] = NewGuard(pc[t].kind, pc[t].page, f)]
  /\ pc' = [pc EXCEPT ![t] = [Idle EXCEPT !.page = pc[t].page]]
  /\ bpm_latch' = ReturnBpm(t)
  /\ victim' = {}
  /\ UNCHANGED <<page_table, free_frames, frames, next_page_id, disk, lastw, trapped, ops,
                 treeVars>>

\* Thread t calls g.Drop(): lock_.unlock() comes first and never waits.
DropUnlock(t, g) ==
  /\ ThreadCall(t)
  /\ Owner(g) = t
  /\ guards[g].kind # "none"
  /\ guards' = [guards EXCEPT ![g].lock = {}]
  /\ pc' = [pc EXCEPT ![t] = [Idle EXCEPT !.op = "drop", !.g = g]]
  /\ victim' = {}
  /\ UNCHANGED <<page_table, free_frames, frames, next_page_id, replacer, disk,
                 lastw, trapped, bpm_latch>>

\* The rest of Drop under the std::lock_guard on bpm_latch_.
DropRelease(t) ==
  /\ pc[t].op = "drop"
  /\ bpm_latch = NoThread
  /\ LET d == Drop(PoolState, guards[pc[t].g])
     IN /\ SetPool(d.st)
        /\ guards' = [guards EXCEPT ![pc[t].g] = d.gd]
  /\ pc' = [pc EXCEPT ![t] = Idle]
  /\ victim' = {}
  /\ UNCHANGED <<lastw, trapped, ops, bpm_latch, treeVars>>

\* A thread inside a call runs on whenever it does not wait.
Continue(t) == CheckedPageBody(t) \/ GuardCtor(t) \/ DropRelease(t)

ConcStep ==
  \/ \E t \in Threads : ThreadNewPage(t)
  \/ \E t \in Threads, g \in Guards, kind \in {"r", "w"}, p \in Pages : CheckedPageCall(t, g, kind, p)
  \/ \E t \in Threads : CheckedPageBody(t)
  \/ \E t \in Threads : GuardCtor(t)
  \/ \E t \in Threads, g \in Guards : DropUnlock(t, g)
  \/ \E t \in Threads : DropRelease(t)

ConcNext == ConcStep

SpecConc ==
  Init /\ [][ConcNext]_vars /\ \A t \in Threads : WF_vars(Continue(t))

(***************************************************************************)
(* Claims about concurrent callers, checked under SpecConc.                *)
(***************************************************************************)
\* Thread t holds a live write guard on page A, latch included.
HoldsWrite(t, A) ==
  \E g \in Guards :
     /\ Owner(g) = t /\ guards[g].kind = "w" /\ Live(g)
     /\ guards[g].page_id = A /\ guards[g].lock # {}

\* Thread u is inside a call for a guard on page A and waits for the latch
\* that thread t's write guard on A holds.
WaitsFor(u, t, A) ==
  /\ pc[u].op = "ctor" /\ pc[u].page = A
  /\ \A g \in Guards : Owner(g) = u => guards[g].lock = {}
  /\ \E g \in Guards :
        /\ Owner(g) = t /\ guards[g].kind = "w" /\ Live(g)
        /\ guards[g].page_id = A /\ pc[u].frame \subseteq guards[g].lock

\* Thread t has asked for a guard on the cached page B, whose latch is free.
Requests(t, B) ==
  /\ pc[t].page = B
  /\ \/ pc[t].op = "fetch" /\ B \in DOMAIN page_table
                           /\ page_table[B] \in Frames
                           /\ LatchFree(page_table[B], pc[t].kind)
     \/ pc[t].op = "ctor" /\ \A f \in pc[t].frame : LatchFree(f, pc[t].kind)

\* Thread t holds a write guard on some page A and asks for a guard on
\* another page while every other thread waits for the guard on A.
DeadlockTestCase(t) ==
  \E A \in Pages : \E B \in Pages \ {A} :
     /\ HoldsWrite(t, A)
     /\ Requests(t, B)
     /\ \A u \in Threads \ {t} : WaitsFor(u, t, A)

\* Thread t holds a live guard on page B.
Obtained(t, B) ==
  \E g \in Guards :
     Owner(g) = t /\ Live(g) /\ guards[g].page_id = B /\ guards[g].lock # {}

\* The call of thread t has returned a guard, which t holds.
Returned(t) ==
  pc[t].op = "idle" /\ pc[t].page \in Pages /\ Obtained(t, pc[t].page)

leaf_max_size == 3
internal_max_size == 3
MaxNumTombs == 2
MaxKey == 4
MaxRid == 2
MaxTreeOps == 6

Keys == 1 .. MaxKey
Rids == 1 .. MaxRid

\* LEAF_PAGE_TOMB_CNT of the instantiation.
LEAF_PAGE_TOMB_CNT == IF NumTombs < 0 THEN 0 ELSE NumTombs

\* An array built slot by slot, as the sequence of its slots.
Array(a) == a \o <<>>

\* a[i], a slot never written reads as zero.
At(a, i) == IF i >= 0 /\ i < Len(a) THEN a[i + 1] ELSE 0

\* a[i] = v
Put(a, i, v) ==
  Array([j \in 1 .. Max(Len(a), i + 1) |-> IF j = i + 1 THEN v ELSE At(a, j - 1)])

\* for (i = lo; i <= hi; i++) a[i] = a[i + 1];
ShiftDown(a, lo, hi) ==
  IF hi < lo THEN a
  ELSE Array([j \in 1 .. Max(Len(a), hi + 1) |->
                IF j - 1 >= lo /\ j - 1 <= hi THEN At(a, j) ELSE At(a, j - 1)])

\* for (i = hi; i >= lo; i--) a[i + 1] = a[i];
ShiftUp(a, lo, hi) ==
  IF hi < lo THEN a
  ELSE Array([j \in 1 .. Max(Len(a), hi + 2) |->
                IF j - 1 >= lo + 1 /\ j - 1 <= hi + 1 THEN At(a, j - 2) ELSE At(a, j - 1)])

\* BPlusTree::GetLeafMaxSize
GetLeafMaxSize(t) == t.leaf_max_size_

\* BPlusTreePage::GetMinSize: ceil(max_size_ / 2).
GetMinSize(pg) == (pg.max_size + 1) \div 2

\* The loop shared by BinarySearch, MatchKey and AccurateFind of both page
\* classes: eq is the slot where the comparator returned 0 (-1 if none was
\* hit), gt the last slot seen with a greater key (size if none).
RECURSIVE SearchLoop(_, _, _, _, _)
SearchLoop(keys, key, begin, end, result) ==
  IF begin > end THEN [eq |-> -1, gt |-> result]
  ELSE Let([mid \in {(end - begin) \div 2 + begin} |->
       Let([k \in {At(keys, mid)} |->
           IF k > key THEN SearchLoop(keys, key, begin, mid - 1, mid)
           ELSE IF k < key THEN SearchLoop(keys, key, mid + 1, end, result)
           ELSE [eq |-> mid, gt |-> result]])])

Search(pg, key) == SearchLoop(pg.keys, key, 0, pg.size - 1, pg.size)

(* ---------------- BPlusTreeLeafPage ---------------- *)
LeafInit(pg, max_size) ==
  [pg EXCEPT !.max_size = max_size, !.size = 0, !.type = "leaf",
             !.father = INVALID_PAGE_ID, !.page_id = INVALID_PAGE_ID,
             !.tombs = <<>>, !.pre = INVALID_PAGE_ID, !.next = INVALID_PAGE_ID,
             !.is_begin = FALSE, !.is_update = FALSE]

IsTombstone(pg, index) == \E i \in 1 .. Len(pg.tombs) : pg.tombs[i] = index

\* An insert that leaves the tombstone of the slot it found.
KeepTombstone(pg, index) == pg

RemoveTombstone(pg, index) ==
  IF IsTombstone(pg, index)
    THEN [pg EXCEPT !.tombs = RemoveAt(pg.tombs, FirstIndex(index, pg.tombs))]
    ELSE pg

MarkTomb(pg, index) == [pg EXCEPT !.tombs = Append(pg.tombs, index)]

GetRealSize(pg) == pg.size - Len(pg.tombs)

\* BinarySearch without its equality branch.
BinarySearchNoEqual(pg, key) == Search(pg, key).gt

LeafBinarySearch(pg, key) ==
  Let([r \in {Search(pg, key)} |->   IF r.eq # -1 THEN -1 ELSE r.gt])

LeafMatchKey(pg, key) ==
  Let([r \in {Search(pg, key)} |->
      IF r.eq = -1 THEN -1
      ELSE IF LEAF_PAGE_TOMB_CNT > 0 /\ IsTombstone(pg, r.eq) THEN -1 ELSE r.eq])

\* Returns the page and the bool the function returns.
LeafInsertKeyValue(pg, key, value) ==
  IF pg.size = 0
    THEN [pg |-> [pg EXCEPT !.keys = Put(pg.keys, 0, key), !.vals = Put(pg.vals, 0, value),
                            !.size = 1],
          ok |-> TRUE]
  ELSE
    Let([index \in {LeafBinarySearch(pg, key)} |->
    Let([p1 \in {IF index = 0 THEN [pg EXCEPT !.is_begin = TRUE] ELSE pg} |->
    Let([mid \in {Search(pg, key).eq} |->
    Let([total_size \in {pg.size} |->
        IF index = -1
          THEN IF LEAF_PAGE_TOMB_CNT > 0 /\ IsTombstone(p1, mid)
                 THEN [pg |-> [RemoveTombstone(p1, mid) EXCEPT !.vals = Put(p1.vals, mid, value)],
                       ok |-> TRUE]
                 ELSE [pg |-> p1, ok |-> FALSE]
        ELSE
          Let([tb \in {[j \in 1 .. Len(p1.tombs) |->
                       IF p1.tombs[j] >= index THEN p1.tombs[j] + 1 ELSE p1.tombs[j]]} |->
              [pg |-> [p1 EXCEPT
                        !.tombs = tb,
                        !.keys = Put(ShiftUp(p1.keys, index, total_size - 1), index, key),
                        !.vals = Put(ShiftUp(p1.vals, index, total_size - 1), index, value),
                        !.size = total_size + 1],
               ok |-> TRUE]])])])])])

\* The physical removal of the oldest tombstone, as Delete does it inline.
\* A Delete that retires no tombstone when the buffer is full.
KeepOldestTombstone(pg) == pg

DropOldestTombstone(pg) ==
  Let([tomb_index \in {pg.tombs[1]} |->
  Let([rest \in {[j \in 1 .. (Len(pg.tombs) - 1) |->
                 IF pg.tombs[j + 1] > tomb_index THEN pg.tombs[j + 1] - 1 ELSE pg.tombs[j + 1]]} |->
  Let([deleted_key \in {At(pg.keys, tomb_index)} |->
  Let([p1 \in {[pg EXCEPT !.keys = ShiftDown(pg.keys, tomb_index, pg.size - 2),
                       !.vals = ShiftDown(pg.vals, tomb_index, pg.size - 2),
                       !.tombs = rest,
                       !.size = pg.size - 1]} |->
      IF tomb_index = 0
        THEN [p1 EXCEPT !.before_first_key = deleted_key, !.need_deep_update = TRUE]
        ELSE p1])])])])

LeafDelete(pg, key) ==
  Let([index \in {LeafMatchKey(pg, key)} |->
      IF index = -1 THEN pg
      ELSE IF LEAF_PAGE_TOMB_CNT = 0
        THEN Let([p1 \in {[pg EXCEPT !.keys = ShiftDown(pg.keys, index, pg.size - 2),
                                  !.vals = ShiftDown(pg.vals, index, pg.size - 2),
                                  !.size = pg.size - 1]} |->
                 IF index = 0
                   THEN [p1 EXCEPT !.before_first_key = IF pg.is_update THEN @ ELSE key,
                                   !.is_update = TRUE]
                   ELSE p1])
      ELSE
        Let([full \in {Len(pg.tombs) >= LEAF_PAGE_TOMB_CNT} |->
        Let([p1 \in {IF full THEN DropOldestTombstone(pg) ELSE pg} |->
        Let([idx \in {IF full /\ pg.tombs[1] < index THEN index - 1 ELSE index} |->
        Let([p2 \in {MarkTomb(p1, idx)} |->
            IF ~p2.is_update /\ idx = 0 THEN [p2 EXCEPT !.is_update = TRUE] ELSE p2])])])])])

\* this->Absorb(page): the receiver, the emptied page and the returned key.
LeafAbsorb(this, page) ==
  Let([total_size \in {page.size} |->
  Let([cur \in {this.size} |->
  Let([ks \in {[j \in 1 .. Max(Len(this.keys), cur + total_size) |->
               IF j - 1 >= cur /\ j - 1 < cur + total_size
                 THEN At(page.keys, j - 1 - cur) ELSE At(this.keys, j - 1)]} |->
  Let([vs \in {[j \in 1 .. Max(Len(this.vals), cur + total_size) |->
               IF j - 1 >= cur /\ j - 1 < cur + total_size
                 THEN At(page.vals, j - 1 - cur) ELSE At(this.vals, j - 1)]} |->
  Let([tb \in {this.tombs \o [j \in 1 .. Len(page.tombs) |-> cur + page.tombs[j]]} |->
      [this |-> [this EXCEPT !.keys = ks, !.vals = vs, !.size = cur + total_size,
                             !.tombs = IF LEAF_PAGE_TOMB_CNT > 0 THEN tb ELSE @],
       page |-> [page EXCEPT !.size = 0, !.tombs = <<>>],
       begin_key |-> At(page.keys, 0)]])])])])])

LeafIsEmpty(pg) == pg.size = 0

CleanupTombs(pg) ==
  Let([live \in {SelectSeq([j \in 1 .. pg.size |-> j - 1], LAMBDA i : ~IsTombstone(pg, i))} |->
  Let([ks \in {[j \in 1 .. Max(Len(pg.keys), Len(live)) |->
               IF j <= Len(live) THEN At(pg.keys, live[j]) ELSE At(pg.keys, j - 1)]} |->
  Let([vs \in {[j \in 1 .. Max(Len(pg.vals), Len(live)) |->
               IF j <= Len(live) THEN At(pg.vals, live[j]) ELSE At(pg.vals, j - 1)]} |->
      [pg EXCEPT !.before_first_key = At(pg.keys, 0), !.keys = ks, !.vals = vs,
                 !.size = Len(live), !.tombs = <<>>]])])])

\* What GetValue collects from the leaf.
RECURSIVE FindAndPushLoop(_, _, _, _)
FindAndPushLoop(pg, key, begin, end) ==
  IF begin > end THEN <<>>
  ELSE Let([mid \in {(end - begin) \div 2 + begin} |->
       Let([k \in {At(pg.keys, mid)} |->
           IF k > key THEN FindAndPushLoop(pg, key, begin, mid - 1)
           ELSE IF k < key THEN FindAndPushLoop(pg, key, mid + 1, end)
           ELSE IF LEAF_PAGE_TOMB_CNT > 0 /\ IsTombstone(pg, mid)
             THEN FindAndPushLoop(pg, key, mid + 1, end)
             ELSE <<At(pg.vals, mid)>> \o FindAndPushLoop(pg, key, mid + 1, end)])])

FindAndPush(pg, key) == FindAndPushLoop(pg, key, 0, pg.size - 1)

LeafInsertBegin(pg, pair) ==
  [pg EXCEPT !.tombs = IF LEAF_PAGE_TOMB_CNT > 0
                         THEN [j \in 1 .. Len(pg.tombs) |-> pg.tombs[j] + 1] ELSE @,
             !.keys = Put(ShiftUp(pg.keys, 0, pg.size - 1), 0, pair[1]),
             !.vals = Put(ShiftUp(pg.vals, 0, pg.size - 1), 0, pair[2]),
             !.size = pg.size + 1]

LeafInsertBack(pg, pair) ==
  [pg EXCEPT !.keys = Put(pg.keys, pg.size, pair[1]),
             !.vals = Put(pg.vals, pg.size, pair[2]),
             !.size = pg.size + 1]

\* Removes slot i, a slot PopBack or PopFront has chosen.
PopSlot(pg, i) ==
  [pg |-> [pg EXCEPT !.keys = ShiftDown(pg.keys, i, pg.size - 2),
                     !.vals = ShiftDown(pg.vals, i, pg.size - 2),
                     !.tombs = IF LEAF_PAGE_TOMB_CNT > 0
                                 THEN [j \in 1 .. Len(pg.tombs) |->
                                         IF pg.tombs[j] > i THEN pg.tombs[j] - 1 ELSE pg.tombs[j]]
                                 ELSE @,
                     !.size = pg.size - 1],
   pair |-> <<At(pg.keys, i), At(pg.vals, i)>>]

LeafPopBack(pg) ==
  Let([valid \in {{i \in 0 .. (pg.size - 1) : ~IsTombstone(pg, i)}} |->
      IF valid = {} THEN [pg |-> pg, pair |-> <<0, 0>>]
      ELSE PopSlot(pg, CHOOSE i \in valid : \A j \in valid : j <= i)])

LeafPopFront(pg) ==
  Let([valid \in {{i \in 0 .. (pg.size - 1) : ~IsTombstone(pg, i)}} |->
      IF valid = {} THEN [pg |-> pg, pair |-> <<0, 0>>]
      ELSE PopSlot(pg, CHOOSE i \in valid : \A j \in valid : i <= j)])

\* this->Split(new_leaf_page): both pages afterwards.
LeafSplit(this, new_leaf_page) ==
  Let([total_size \in {this.size} |->
  Let([split_index \in {total_size \div 2} |->
  Let([moved \in {SelectSeq(this.tombs, LAMBDA x : x >= split_index)} |->
  Let([kept \in {SelectSeq(this.tombs, LAMBDA x : x < split_index)} |->
  Let([n0 \in {[new_leaf_page EXCEPT !.next = this.next, !.pre = this.page_id]} |->
      [this |-> [this EXCEPT !.next = new_leaf_page.page_id,
                             !.tombs = IF LEAF_PAGE_TOMB_CNT > 0 THEN kept ELSE @,
                             !.size = split_index],
       new |-> [n0 EXCEPT
                  !.keys = [j \in 1 .. Max(Len(n0.keys), total_size - split_index) |->
                              IF j <= total_size - split_index
                                THEN At(this.keys, split_index + j - 1) ELSE At(n0.keys, j - 1)],
                  !.vals = [j \in 1 .. Max(Len(n0.vals), total_size - split_index) |->
                              IF j <= total_size - split_index
                                THEN At(this.vals, split_index + j - 1) ELSE At(n0.vals, j - 1)],
                  !.size = n0.size + (total_size - split_index),
                  !.tombs = IF LEAF_PAGE_TOMB_CNT > 0
                              THEN n0.tombs \o [j \in 1 .. Len(moved) |-> moved[j] - split_index]
                              ELSE @]]])])])])])

(* ---------------- BPlusTreeInternalPage ---------------- *)
\* key_array_[i] is the smallest key below page_id_array_[i]; vals holds
\* page_id_array_.
InternalInit(pg, max_size) ==
  [pg EXCEPT !.type = "internal", !.size = 0, !.max_size = max_size,
             !.page_id = INVALID_PAGE_ID, !.father = INVALID_PAGE_ID]

ValueIndexForPage_id_t(pg, value) ==
  Let([hits \in {{i \in 0 .. (pg.size - 1) : At(pg.vals, i) = value}} |->
      IF hits = {} THEN -1 ELSE CHOOSE i \in hits : \A j \in hits : i <= j])

InternalBinarySearch(pg, key) ==
  Let([r \in {Search(pg, key)} |->   IF r.eq # -1 THEN r.eq + 1 ELSE r.gt])

InternalMatchKey(pg, key) == Search(pg, key).eq

FirstInsert(pg, key_left, key_right, left_page_id, right_page_id) ==
  [pg EXCEPT !.keys = Put(Put(pg.keys, 0, key_left), 1, key_right),
             !.vals = Put(Put(pg.vals, 0, left_page_id), 1, right_page_id),
             !.size = pg.size + 2]

InternalInsertKeyValue(pg, key, value) ==
  Let([index \in {InternalBinarySearch(pg, key)} |->
      [pg EXCEPT !.keys = Put(ShiftUp(pg.keys, index, pg.size - 1), index, key),
                 !.vals = Put(ShiftUp(pg.vals, index, pg.size - 1), index, value),
                 !.size = pg.size + 1]])

\* UpdateKey(int index, page_id_t id)
UpdateKeyId(pg, index, id) == [pg EXCEPT !.vals = Put(pg.vals, index, id)]

\* UpdateKey(int index, std::optional<KeyType> update_key)
UpdateKeyKey(pg, index, update_key) == [pg EXCEPT !.keys = Put(pg.keys, index, update_key)]

\* UpdateKey(KeyType key, std::pair<KeyType, ValueType> pair, comparator)
UpdateKeyPair(pg, key, pair) ==
  Let([index \in {InternalMatchKey(pg, key)} |->
      [pg EXCEPT !.keys = Put(pg.keys, index, pair[1]), !.vals = Put(pg.vals, index, pair[2])]])

InternalInsertBack(pg, pair) ==
  [pg EXCEPT !.keys = Put(pg.keys, pg.size, pair[1]),
             !.vals = Put(pg.vals, pg.size, pair[2]),
             !.size = pg.size + 1]

\* this->Absorb(page, v): the receiver, the emptied page, the children moved
\* and the returned key.
InternalAbsorb(this, page) ==
  Let([n \in {Max(page.size, 0)} |->
  Let([ks \in {[j \in 1 .. Max(Len(this.keys), this.size + n) |->
               IF j - 1 >= this.size /\ j - 1 < this.size + n
                 THEN At(page.keys, j - 1 - this.size) ELSE At(this.keys, j - 1)]} |->
  Let([vs \in {[j \in 1 .. Max(Len(this.vals), this.size + n) |->
               IF j - 1 >= this.size /\ j - 1 < this.size + n
                 THEN At(page.vals, j - 1 - this.size) ELSE At(this.vals, j - 1)]} |->
      [this |-> [this EXCEPT !.keys = ks, !.vals = vs, !.size = this.size + n],
       page |-> [page EXCEPT !.size = 0],
       v |-> [j \in 1 .. n |-> At(page.vals, j - 1)],
       begin_key |-> At(page.keys, 0)]])])])

InternalPopBack(pg) ==
  [pg |-> [pg EXCEPT !.size = pg.size - 1],
   pair |-> <<At(pg.keys, pg.size - 1), At(pg.vals, pg.size - 1)>>]

InternalPopFront(pg) ==
  [pg |-> [pg EXCEPT !.keys = ShiftDown(pg.keys, 0, pg.size - 1),
                     !.vals = ShiftDown(pg.vals, 0, pg.size - 1),
                     !.size = pg.size - 1],
   pair |-> <<At(pg.keys, 0), At(pg.vals, 0)>>]

\* this->GetPrePageId(father_write)
GetPrePageId(this, father) ==
  Let([index \in {ValueIndexForPage_id_t(father, this.page_id)} |->
      IF index = 0 THEN INVALID_PAGE_ID ELSE At(father.vals, index - 1)])

\* this->GetNextPageId(father_write)
GetNextPageId(this, father) ==
  Let([index \in {ValueIndexForPage_id_t(father, this.page_id)} |->
      IF index + 1 < father.size THEN At(father.vals, index + 1) ELSE INVALID_PAGE_ID])

InternalInsertBegin(pg, pair) ==
  [pg EXCEPT !.keys = Put(ShiftUp(pg.keys, 0, pg.size - 1), 0, pair[1]),
             !.vals = Put(ShiftUp(pg.vals, 0, pg.size - 1), 0, pair[2]),
             !.size = pg.size + 1]

AccurateFind(pg, key) ==
  Let([r \in {Search(pg, key)} |->
      IF r.eq # -1 THEN At(pg.vals, r.eq)
      ELSE IF r.gt = 0 THEN At(pg.vals, 0) ELSE At(pg.vals, r.gt - 1)])

Find(pg, key) ==
  Let([index \in {InternalBinarySearch(pg, key)} |->
      IF index = 0 THEN At(pg.vals, 0) ELSE At(pg.vals, index - 1)])

DeletePair(pg, index) ==
  [pg EXCEPT !.keys = ShiftDown(pg.keys, index, pg.size - 1),
             !.vals = ShiftDown(pg.vals, index, pg.size - 1),
             !.size = pg.size - 1]

\* this->Split(new_internal_page, v): both pages and the children moved.
InternalSplit(this, new_internal_page) ==
  Let([lo \in {GetMinSize(this)} |->
  Let([n \in {Max(this.max_size - lo, 0)} |->
  Let([moved \in {[j \in 1 .. n |-> lo + j - 1]} |->
      [this |-> [this EXCEPT !.size = this.size - n],
       new |-> [new_internal_page EXCEPT
                  !.keys = [j \in 1 .. Max(Len(new_internal_page.keys), n) |->
                              IF j <= n THEN At(this.keys, moved[j])
                              ELSE At(new_internal_page.keys, j - 1)],
                  !.vals = [j \in 1 .. Max(Len(new_internal_page.vals), n) |->
                              IF j <= n THEN At(this.vals, moved[j])
                              ELSE At(new_internal_page.vals, j - 1)],
                  !.size = new_internal_page.size + n],
       v |-> [j \in 1 .. n |-> At(this.vals, moved[j])]]])])])

(* ---------------- the pool as the tree uses it ---------------- *)
\* Longest chain of pages a descent or a walk along the leaves follows.
MaxWalk == 8

\* Page ids NewPage has handed out and DeletePage has not taken back.
Allocated(t, pid) == pid \in 1 .. Len(t.pages) /\ pid \notin t.freed

Fault(t, what) == [t EXCEPT !.fault = @ \cup {what}]

\* bpm_->ReadPage(pid) / bpm_->WritePage(pid).  For a page id the pool never
\* handed out, INVALID_PAGE_ID or a deallocated page, the pool fetches
\* whatever the disk layer returns for it, which nothing in the program
\* determines.
Touch(t, pid) ==
  IF Allocated(t, pid) \/ pid = HEADER_PAGE_ID THEN t ELSE Fault(t, "unallocated_page")

\* An array written or read at a negative index.
Oob(t, index) == IF index < 0 THEN Fault(t, "negative_index") ELSE t

\* The header page read through BPlusTreePage: root_page_id_ lies where
\* page_type_ does (LEAF_PAGE is 1, INTERNAL_PAGE is 2), the rest of the page
\* is zero.
HeaderAsPage(t) ==
  [ZeroPage EXCEPT !.type = IF t.root = 1 THEN "leaf"
                            ELSE IF t.root = 2 THEN "internal" ELSE "invalid"]

\* What a pointer into the page's frame reads: the page, or the zeroed
\* frame of a page that is not there.
PageAt(t, pid) ==
  IF pid \in 1 .. Len(t.pages) THEN t.pages[pid]
  ELSE IF pid = HEADER_PAGE_ID THEN HeaderAsPage(t) ELSE ZeroPage

SetPage(t, pid, pg) ==
  IF Allocated(t, pid) THEN [t EXCEPT !.pages[pid] = pg]
  ELSE IF pid = HEADER_PAGE_ID /\ pg # HeaderAsPage(t) THEN Fault(t, "header_overwritten")
  ELSE t

\* bpm_->NewPage(): the next page id on a zeroed frame.  With no frame free
\* and none evictable the pool allocates nothing and returns INVALID_PAGE_ID:
\* avail is {} while the pool has frames to spare, {n} when it can allocate n
\* more pages; denied notes that a call was refused.
TreeNewPage(t) ==
  IF t.avail = {0} THEN [t EXCEPT !.denied = TRUE]
  ELSE [t EXCEPT !.pages = Append(@, ZeroPage), !.avail = {n - 1 : n \in @}]

\* The page id NewPage returned, t being the pool after the call.
NewPageId(t) == IF t.denied THEN INVALID_PAGE_ID ELSE Len(t.pages)

\* bpm_->DeletePage(pid): every guard on the page has been dropped, so the
\* frame is reset and the page id deallocated.
TreeDeletePage(t, pid) ==
  IF Allocated(t, pid)
    THEN [t EXCEPT !.pages[pid] = ZeroPage, !.freed = @ \cup {pid}]
    ELSE t

IsLeafPage(pg) == pg.type = "leaf"

(* ---------------- BPlusTree: lookup and insertion ---------------- *)
RECURSIVE UpdateFather(_, _, _, _)
UpdateFather(t, first_key, second_key, pid) ==
  IF t.fault # {} THEN t ELSE
  Let([write \in {PageAt(t, pid)} |->
  Let([father_id \in {write.father} |->
      IF father_id = INVALID_PAGE_ID THEN t
      ELSE
        Let([t1 \in {Touch(t, father_id)} |->
        Let([father_write \in {PageAt(t1, father_id)} |->
        Let([m \in {InternalMatchKey(father_write, first_key)} |->
        Let([index \in {IF m = -1 THEN ValueIndexForPage_id_t(father_write, write.page_id) ELSE m} |->
            IF index = -1 THEN t1
            ELSE Let([t2 \in {SetPage(t1, father_id, UpdateKeyKey(father_write, index, second_key))} |->
                     IF index = 0 THEN UpdateFather(t2, first_key, second_key, father_id) ELSE t2])])])])])])])

RECURSIVE RecursiveUpdateKeyForRedistribute(_, _, _, _)
RecursiveUpdateKeyForRedistribute(t, old_key, new_pair, father_id) ==
  IF t.fault # {} THEN t ELSE
  Let([father_write \in {PageAt(t, father_id)} |->
  Let([index \in {InternalMatchKey(father_write, old_key)} |->
      IF index = -1 THEN t
      ELSE
        Let([father_old_min_key \in {At(father_write.keys, 0)} |->
        Let([f1 \in {UpdateKeyPair(father_write, old_key, new_pair)} |->
        Let([t1 \in {SetPage(t, father_id, f1)} |->
        Let([grandfather_id \in {f1.father} |->
            IF index = 0 /\ grandfather_id # INVALID_PAGE_ID
              THEN RecursiveUpdateKeyForRedistribute(Touch(t1, grandfather_id), father_old_min_key,
                                                     <<At(f1.keys, 0), f1.page_id>>, grandfather_id)
              ELSE t1])])])])])])

\* The descent loops of LocateKey (Find, with its checks) and of Insert
\* (AccurateFind, without): from the child temp_id of the root down to a
\* leaf.  The result is the page id returned, -1 where the code gives up.
RECURSIVE Descend(_, _, _, _, _)
Descend(t, temp_id, key, accurate, fuel) ==
  Let([t1 \in {Touch(t, temp_id)} |->
  Let([pg \in {PageAt(t1, temp_id)} |->
      IF t1.fault # {} THEN [t |-> t1, page_id |-> INVALID_PAGE_ID]
      ELSE IF IsLeafPage(pg) THEN [t |-> t1, page_id |-> temp_id]
      ELSE IF fuel = 0 THEN [t |-> Fault(t1, "endless_descent"), page_id |-> INVALID_PAGE_ID]
      ELSE IF ~accurate /\ pg.page_id # temp_id THEN [t |-> t1, page_id |-> INVALID_PAGE_ID]
      ELSE Let([next_id \in {IF accurate THEN AccurateFind(pg, key) ELSE Find(pg, key)} |->
               IF next_id = INVALID_PAGE_ID THEN [t |-> t1, page_id |-> INVALID_PAGE_ID]
               ELSE Descend(t1, next_id, key, accurate, fuel - 1)])])])

\* LocateKey(key, header_page)
LocateKey(t, key) ==
  Let([t1 \in {Touch(t, t.root)} |->
  Let([root_page \in {PageAt(t1, t.root)} |->
      IF IsLeafPage(root_page) THEN [t |-> t1, page_id |-> t.root]
      ELSE Let([temp_id \in {Find(root_page, key)} |->
               IF temp_id = INVALID_PAGE_ID THEN [t |-> t1, page_id |-> INVALID_PAGE_ID]
               ELSE Descend(t1, temp_id, key, FALSE, MaxWalk)])])])

\* GetValue(key, result): the vector it fills, and whether every page it
\* read was a page of the tree.
GetValue(t, key) ==
  IF t.root = INVALID_PAGE_ID THEN [result |-> <<>>, defined |-> TRUE]
  ELSE Let([l \in {LocateKey(t, key)} |->
           IF l.page_id = INVALID_PAGE_ID
             THEN [result |-> <<>>, defined |-> l.t.fault = {}]
             ELSE [result |-> FindAndPush(PageAt(l.t, l.page_id), key),
                   defined |-> Touch(l.t, l.page_id).fault = {}]])

RECURSIVE SetFatherOf(_, _, _)
\* for (child : v) child->SetFatherPageId(father_id)
SetFatherOf(t, v, father_id) ==
  IF v = <<>> THEN t
  ELSE Let([t1 \in {Touch(t, Head(v))} |->
           SetFatherOf(SetPage(t1, Head(v), [PageAt(t1, Head(v)) EXCEPT !.father = father_id]),
                       Tail(v), father_id)])

RECURSIVE PushUp(_, _)
PushUp(t, pid) ==
  Let([page_write \in {PageAt(t, pid)} |->
    
  IF t.fault # {} THEN t
  ELSE IF IsLeafPage(page_write)
    THEN
      IF page_write.size < page_write.max_size THEN t
      ELSE
        Let([t1 \in {TreeNewPage(t)} |->
        Let([new_page_id \in {NewPageId(t1)} |->
        IF new_page_id = INVALID_PAGE_ID THEN t1 ELSE
        Let([fresh \in {[LeafInit(PageAt(t1, new_page_id), GetLeafMaxSize(t1)) EXCEPT !.page_id = new_page_id]} |->
        Let([sp \in {LeafSplit(page_write, fresh)} |->
        Let([t2 \in {SetPage(SetPage(t1, pid, sp.this), new_page_id, sp.new)} |->
        Let([next_id \in {sp.new.next} |->
        Let([t3 \in {IF next_id # INVALID_PAGE_ID
                    THEN SetPage(Touch(t2, next_id), next_id,
                                 [PageAt(t2, next_id) EXCEPT !.pre = sp.new.page_id])
                    ELSE t2} |->
            IF sp.this.father = INVALID_PAGE_ID
              THEN
                Let([t4 \in {TreeNewPage(t3)} |->
                Let([internal_page_id \in {NewPageId(t4)} |->
                IF internal_page_id = INVALID_PAGE_ID THEN t4 ELSE
                Let([ip \in {[InternalInit(PageAt(t4, internal_page_id), t.internal_max_size_)
                             EXCEPT !.page_id = internal_page_id]} |->
                Let([left \in {[PageAt(t4, pid) EXCEPT !.father = internal_page_id]} |->
                Let([right \in {[PageAt(t4, new_page_id) EXCEPT !.father = internal_page_id]} |->
                Let([t5 \in {SetPage(SetPage(t4, pid, left), new_page_id, right)} |->
                    [SetPage(t5, internal_page_id,
                             FirstInsert(ip, At(left.keys, 0), At(right.keys, 0),
                                         left.page_id, right.page_id))
                       EXCEPT !.root = internal_page_id]])])])])])])
              ELSE
                Let([right_min_key \in {At(sp.new.keys, 0)} |->
                Let([right_page_id \in {sp.new.page_id} |->
                Let([father_id \in {sp.this.father} |->
                Let([t4 \in {Touch(t3, father_id)} |->
                Let([father \in {InternalInsertKeyValue(PageAt(t4, father_id), right_min_key, right_page_id)} |->
                Let([t5 \in {SetPage(t4, father_id, father)} |->
                Let([t6 \in {SetPage(Touch(t5, right_page_id), right_page_id,
                                  [PageAt(t5, right_page_id) EXCEPT !.father = father.page_id])} |->
                    PushUp(t6, father_id)])])])])])])])])])])])])])])
    ELSE
      IF t.internal_max_size_ # page_write.size THEN t
      ELSE
        Let([t1 \in {TreeNewPage(t)} |->
        Let([new_internal_page_id \in {NewPageId(t1)} |->
        IF new_internal_page_id = INVALID_PAGE_ID THEN t1 ELSE
        Let([fresh \in {[InternalInit(PageAt(t1, new_internal_page_id), t.internal_max_size_)
                        EXCEPT !.page_id = new_internal_page_id]} |->
        Let([sp \in {InternalSplit(page_write, fresh)} |->
        Let([first_internal_id \in {page_write.page_id} |->
        Let([parent_id \in {page_write.father} |->
        Let([t2 \in {SetPage(SetPage(t1, pid, sp.this), new_internal_page_id, sp.new)} |->
        Let([t3 \in {SetFatherOf(t2, sp.v, new_internal_page_id)} |->
            IF parent_id = INVALID_PAGE_ID
              THEN
                Let([t4 \in {TreeNewPage(t3)} |->
                Let([np \in {NewPageId(t4)} |->
                IF np = INVALID_PAGE_ID THEN t4 ELSE
                Let([parent \in {[InternalInit(PageAt(t4, np), t.internal_max_size_) EXCEPT !.page_id = np]} |->
                Let([t5 \in {Touch(t4, first_internal_id)} |->
                Let([first \in {[PageAt(t5, first_internal_id) EXCEPT !.father = np]} |->
                Let([second \in {[PageAt(t5, new_internal_page_id) EXCEPT !.father = np]} |->
                Let([t6 \in {SetPage(SetPage(t5, first_internal_id, first), new_internal_page_id, second)} |->
                    [SetPage(t6, np, FirstInsert(parent, At(first.keys, 0), At(second.keys, 0),
                                                 first_internal_id, new_internal_page_id))
                       EXCEPT !.root = np]])])])])])])])
              ELSE
                Let([t4 \in {Touch(t3, parent_id)} |->
                Let([parent \in {PageAt(t4, parent_id)} |->
                Let([second \in {[PageAt(t4, new_internal_page_id) EXCEPT !.father = parent.page_id]} |->
                Let([t5 \in {SetPage(t4, new_internal_page_id, second)} |->
                Let([t6 \in {SetPage(t5, parent_id,
                                  InternalInsertKeyValue(parent, At(second.keys, 0), new_internal_page_id))} |->
                    PushUp(t6, parent_id)])])])])])])])])])])])])])])

\* Insert on a tree whose header names no root: a new page becomes the root,
\* an empty leaf, under the write guard of the header page.
NewRoot(t0) ==
  Let([a \in {TreeNewPage(t0)} |->
  Let([page_id \in {NewPageId(a)} |->
      IF page_id = INVALID_PAGE_ID THEN a
      ELSE [SetPage(a, page_id, [LeafInit(PageAt(a, page_id), GetLeafMaxSize(a))
                                   EXCEPT !.page_id = page_id])
              EXCEPT !.root = page_id]])])

\* Insert from the root the header names: the descent to the leaf, the
\* insertion into it and the splits.
InsertIntoTree(t, key, value) ==
  Let([t1 \in {Touch(t, t.root)} |->
  Let([root_page \in {PageAt(t1, t.root)} |->
      IF IsLeafPage(root_page)
        THEN Let([r \in {LeafInsertKeyValue(root_page, key, value)} |->
             Let([t2 \in {SetPage(t1, t.root, r.pg)} |->
                 IF ~r.ok THEN [t |-> t2, ok |-> FALSE]
                 ELSE [t |-> PushUp(t2, t.root), ok |-> TRUE]])])
        ELSE
          Let([d \in {Descend(t1, AccurateFind(root_page, key), key, TRUE, MaxWalk)} |->
              IF d.page_id = INVALID_PAGE_ID THEN [t |-> d.t, ok |-> FALSE]
              ELSE
                Let([page_id \in {d.page_id} |->
                Let([leaf \in {PageAt(d.t, page_id)} |->
                Let([begin_key \in {IF leaf.size > 0 THEN At(leaf.keys, 0) ELSE leaf.before_first_key} |->
                Let([r \in {LeafInsertKeyValue(leaf, key, value)} |->
                Let([t2 \in {SetPage(d.t, page_id, r.pg)} |->
                    IF ~r.ok THEN [t |-> t2, ok |-> FALSE]
                    ELSE IF r.pg.is_begin
                      THEN Let([t3 \in {UpdateFather(t2, begin_key, At(r.pg.keys, 0), page_id)} |->
                           Let([t4 \in {SetPage(t3, page_id, [PageAt(t3, page_id) EXCEPT !.is_begin = FALSE])} |->
                               [t |-> PushUp(t4, page_id), ok |-> TRUE]])])
                      ELSE [t |-> PushUp(t2, page_id), ok |-> TRUE]])])])])])])])])

\* Insert(key, value): the tree afterwards and the bool returned.
TreeInsert(t0, key, value) ==
  Let([t \in {IF t0.root = INVALID_PAGE_ID THEN NewRoot(t0) ELSE t0} |->
      IF t.denied THEN [t |-> t, ok |-> FALSE] ELSE InsertIntoTree(t, key, value)])

(* ---------------- BPlusTree: removal ---------------- *)
\* IsDistributeForLeaf(leaf_write): the sibling to borrow from, if any.
IsDistributeForLeaf(t, pid) ==
  Let([leaf_write \in {PageAt(t, pid)} |->
  Let([left_id \in {leaf_write.pre} |->
  Let([right_id \in {leaf_write.next} |->
  Let([need_num \in {GetMinSize(leaf_write) - leaf_write.size} |->
  Let([t1 \in {IF left_id # INVALID_PAGE_ID THEN Touch(t, left_id) ELSE t} |->
      IF left_id # INVALID_PAGE_ID
         /\ PageAt(t1, left_id).size > GetMinSize(leaf_write) + need_num - 1
        THEN [t |-> t1, id |-> left_id]
      ELSE Let([t2 \in {IF right_id # INVALID_PAGE_ID THEN Touch(t1, right_id) ELSE t1} |->
               IF right_id # INVALID_PAGE_ID
                  /\ PageAt(t2, right_id).size > GetMinSize(leaf_write) + need_num - 1
                 THEN [t |-> t2, id |-> right_id]
                 ELSE [t |-> t2, id |-> INVALID_PAGE_ID]])])])])])])

IsDistributeForInternal(t, pid, to_size) ==
  Let([internal_write \in {PageAt(t, pid)} |->
      IF internal_write.father = INVALID_PAGE_ID THEN [t |-> t, id |-> INVALID_PAGE_ID]
      ELSE
        Let([t1 \in {Touch(t, internal_write.father)} |->
        Let([father_write \in {PageAt(t1, internal_write.father)} |->
        Let([t2 \in {Oob(t1, ValueIndexForPage_id_t(father_write, internal_write.page_id))} |->
        Let([left_id \in {GetPrePageId(internal_write, father_write)} |->
        Let([right_id \in {GetNextPageId(internal_write, father_write)} |->
        Let([t3 \in {IF left_id # INVALID_PAGE_ID THEN Touch(t2, left_id) ELSE t2} |->
        Let([left_write \in {PageAt(t3, left_id)} |->
            IF left_id # INVALID_PAGE_ID /\ left_write.size - GetMinSize(left_write) >= to_size
              THEN [t |-> t3, id |-> left_id]
            ELSE Let([t4 \in {IF right_id # INVALID_PAGE_ID THEN Touch(t3, right_id) ELSE t3} |->
                 Let([right_write \in {PageAt(t4, right_id)} |->
                     IF right_id # INVALID_PAGE_ID
                        /\ right_write.size - GetMinSize(right_write) > to_size
                       THEN [t |-> t4, id |-> right_id]
                       ELSE [t |-> t4, id |-> INVALID_PAGE_ID]])])])])])])])])])])

RedistributeForLeaf(t, page_id, pid) ==
  Let([leaf_write \in {PageAt(t, pid)} |->
  Let([t1 \in {Touch(t, page_id)} |->
      IF page_id = leaf_write.pre
        THEN
          Let([old_first_key \in {At(leaf_write.keys, 0)} |->
          Let([back \in {LeafPopBack(PageAt(t1, page_id))} |->
          Let([leaf1 \in {LeafInsertBegin(leaf_write, back.pair)} |->
          Let([t2 \in {SetPage(SetPage(t1, page_id, back.pg), pid, leaf1)} |->
          Let([father_id \in {leaf1.father} |->
          Let([new_first_key \in {At(leaf1.keys, 0)} |->
              IF father_id # INVALID_PAGE_ID /\ new_first_key # old_first_key
                THEN RecursiveUpdateKeyForRedistribute(Touch(t2, father_id), old_first_key,
                                                       <<new_first_key, leaf1.page_id>>, father_id)
                ELSE t2])])])])])])
        ELSE
          Let([right_write \in {PageAt(t1, page_id)} |->
          Let([old_right_first_key \in {At(right_write.keys, 0)} |->
          Let([has_first_key \in {leaf_write.size > 0} |->
          Let([receiver_old_first_key \in {At(leaf_write.keys, 0)} |->
          Let([front \in {LeafPopFront(right_write)} |->
          Let([leaf1 \in {LeafInsertBack(leaf_write, front.pair)} |->
          Let([t2 \in {SetPage(SetPage(t1, page_id, front.pg), pid, leaf1)} |->
          Let([father_id \in {front.pg.father} |->
          Let([t3 \in {IF father_id # INVALID_PAGE_ID
                      THEN RecursiveUpdateKeyForRedistribute(
                             Touch(t2, father_id), old_right_first_key,
                             <<At(front.pg.keys, 0), front.pg.page_id>>, father_id)
                      ELSE t2} |->
          Let([receiver_father_id \in {leaf1.father} |->
          Let([new_first_key \in {At(leaf1.keys, 0)} |->
          Let([need_update \in {IF has_first_key THEN new_first_key # receiver_old_first_key ELSE TRUE} |->
          Let([receiver_old_key \in {IF has_first_key THEN receiver_old_first_key
                                  ELSE leaf1.before_first_key} |->
              IF receiver_father_id # INVALID_PAGE_ID /\ need_update
                THEN RecursiveUpdateKeyForRedistribute(
                       Touch(t3, receiver_father_id), receiver_old_key,
                       <<new_first_key, leaf1.page_id>>, receiver_father_id)
                ELSE t3])])])])])])])])])])])])])])])

RedistributeForInternal(t, page_id, pid) ==
  Let([internal_write \in {PageAt(t, pid)} |->
  Let([father_id \in {internal_write.father} |->
      IF father_id = INVALID_PAGE_ID THEN t
      ELSE
        Let([t0 \in {Touch(t, father_id)} |->
        Let([father_write \in {PageAt(t0, father_id)} |->
        Let([t1 \in {Touch(Oob(t0, ValueIndexForPage_id_t(father_write, internal_write.page_id)), page_id)} |->
            IF page_id = GetPrePageId(internal_write, father_write)
              THEN
                Let([old_first_key \in {At(internal_write.keys, 0)} |->
                Let([back \in {InternalPopBack(PageAt(t1, page_id))} |->
                Let([int1 \in {InternalInsertBegin(internal_write, back.pair)} |->
                Let([t2 \in {SetPage(SetPage(t1, page_id, back.pg), pid, int1)} |->
                    RecursiveUpdateKeyForRedistribute(t2, old_first_key,
                                                      <<At(int1.keys, 0), int1.page_id>>, father_id)])])])])
              ELSE
                Let([right_write \in {PageAt(t1, page_id)} |->
                Let([old_right_first_key \in {At(right_write.keys, 0)} |->
                Let([front \in {InternalPopFront(right_write)} |->
                Let([int1 \in {InternalInsertBack(internal_write, front.pair)} |->
                Let([t2 \in {SetPage(SetPage(t1, page_id, front.pg), pid, int1)} |->
                    RecursiveUpdateKeyForRedistribute(t2, old_right_first_key,
                                                      <<At(front.pg.keys, 0), front.pg.page_id>>,
                                                      father_id)])])])])])])])])])])

\* tombstones_ holds LEAF_PAGE_TOMB_CNT entries; Absorb appends to it without
\* a check.
TombCheck(t, pg) ==
  IF Len(pg.tombs) > LEAF_PAGE_TOMB_CNT THEN Fault(t, "tombstones_overflow") ELSE t

\* MergeForLeaf(leaf_guard)
MergeForLeaf(t, pid) ==
  Let([leaf_write \in {PageAt(t, pid)} |->
  Let([left_id \in {leaf_write.pre} |->
  Let([t1 \in {IF left_id # INVALID_PAGE_ID THEN Touch(t, left_id) ELSE t} |->
  Let([left_write \in {PageAt(t1, left_id)} |->
      IF left_id # INVALID_PAGE_ID /\ left_write.father = leaf_write.father
        THEN
          Let([leaf1 \in {[leaf_write EXCEPT !.pre = left_write.pre]} |->
          Let([t2 \in {SetPage(t1, pid, leaf1)} |->
          Let([t3 \in {IF left_write.pre # INVALID_PAGE_ID
                      THEN SetPage(Touch(t2, left_write.pre), left_write.pre,
                                   [PageAt(t2, left_write.pre) EXCEPT !.next = leaf1.page_id])
                      ELSE t2} |->
          Let([leaf2 \in {PageAt(t3, pid)} |->
          Let([pre_size \in {leaf2.size} |->
          Let([pre_absorb_first_key \in {At(leaf2.keys, 0)} |->
          Let([ab \in {LeafAbsorb(leaf2, PageAt(t3, left_id))} |->
          Let([t4 \in {TombCheck(SetPage(SetPage(t3, pid, ab.this), left_id, ab.page), ab.this)} |->
          Let([left_min_key \in {At(ab.page.keys, 0)} |->
          Let([left_page_id_to_delete \in {ab.page.page_id} |->
          Let([father_id \in {ab.this.father} |->
          Let([t5 \in {Touch(t4, father_id)} |->
          Let([father_write \in {PageAt(t5, father_id)} |->
          Let([index \in {InternalMatchKey(father_write, left_min_key)} |->
          Let([tem_index \in {InternalMatchKey(father_write, pre_absorb_first_key)} |->
          Let([f1 \in {IF pre_size = 0 THEN father_write ELSE DeletePair(father_write, tem_index)} |->
          Let([t6 \in {IF pre_size = 0 THEN t5 ELSE Oob(t5, tem_index)} |->
          Let([t7 \in {SetPage(Oob(t6, index), father_id, UpdateKeyId(f1, index, ab.this.page_id))} |->
              TreeDeletePage(t7, left_page_id_to_delete)])])])])])])])])])])])])])])])])])])
        ELSE
          Let([right_id \in {leaf_write.next} |->
          Let([t2 \in {IF right_id # INVALID_PAGE_ID THEN Touch(t1, right_id) ELSE t1} |->
          Let([right_write \in {PageAt(t2, right_id)} |->
              IF right_id # INVALID_PAGE_ID /\ leaf_write.father = right_write.father
                THEN
                  Let([leaf1 \in {[leaf_write EXCEPT !.next = right_write.next]} |->
                  Let([t3 \in {SetPage(t2, pid, leaf1)} |->
                  Let([t4 \in {IF right_write.next # INVALID_PAGE_ID
                              THEN SetPage(Touch(t3, right_write.next), right_write.next,
                                           [PageAt(t3, right_write.next) EXCEPT !.pre = leaf1.page_id])
                              ELSE t3} |->
                  Let([leaf2 \in {PageAt(t4, pid)} |->
                  Let([pre_is_empty \in {leaf2.size} |->
                  Let([ab \in {LeafAbsorb(leaf2, PageAt(t4, right_id))} |->
                  Let([t5 \in {TombCheck(SetPage(SetPage(t4, pid, ab.this), right_id, ab.page), ab.this)} |->
                  Let([right_page_id_to_delete \in {ab.page.page_id} |->
                  Let([father_id \in {ab.this.father} |->
                  Let([t6 \in {Touch(t5, father_id)} |->
                  Let([father_write \in {PageAt(t6, father_id)} |->
                  Let([index \in {InternalMatchKey(father_write, ab.begin_key)} |->
                  Let([f1 \in {IF pre_is_empty # 0 THEN DeletePair(father_write, index)
                            ELSE UpdateKeyId(father_write, index, ab.this.page_id)} |->
                      TreeDeletePage(SetPage(Oob(t6, index), father_id, f1), right_page_id_to_delete)])])])])])])])])])])])])])
                ELSE t2])])])])])])])

\* MergeForInternal(internal_guard)
MergeForInternal(t, pid) ==
  Let([internal_write \in {PageAt(t, pid)} |->
  Let([father_page_id \in {internal_write.father} |->
      IF father_page_id = INVALID_PAGE_ID THEN t
      ELSE
        Let([t0 \in {Touch(t, father_page_id)} |->
        Let([father0 \in {PageAt(t0, father_page_id)} |->
        Let([t1 \in {Oob(t0, ValueIndexForPage_id_t(father0, internal_write.page_id))} |->
        Let([left_id \in {GetPrePageId(internal_write, father0)} |->
        Let([t2 \in {IF left_id # INVALID_PAGE_ID THEN Touch(t1, left_id) ELSE t1} |->
        Let([left_write \in {PageAt(t2, left_id)} |->
            IF left_id # INVALID_PAGE_ID /\ left_write.father = internal_write.father
              THEN
                Let([ab \in {InternalAbsorb(left_write, internal_write)} |->
                Let([t3 \in {SetPage(SetPage(t2, left_id, ab.this), pid, ab.page)} |->
                Let([t4 \in {SetFatherOf(t3, ab.v, ab.this.page_id)} |->
                Let([father_write \in {PageAt(t4, father_page_id)} |->
                Let([index \in {InternalMatchKey(father_write, ab.begin_key)} |->
                Let([t5 \in {SetPage(Oob(t4, index), father_page_id, DeletePair(father_write, index))} |->
                    TreeDeletePage(t5, PageAt(t5, pid).page_id)])])])])])])
              ELSE
                Let([right_id \in {GetNextPageId(internal_write, father0)} |->
                Let([t3 \in {IF right_id # INVALID_PAGE_ID THEN Touch(t2, right_id) ELSE t2} |->
                Let([right_write \in {PageAt(t3, right_id)} |->
                    IF right_id # INVALID_PAGE_ID /\ internal_write.father = right_write.father
                      THEN
                        Let([ab \in {InternalAbsorb(internal_write, right_write)} |->
                        Let([t4 \in {SetPage(SetPage(t3, pid, ab.this), right_id, ab.page)} |->
                        Let([t5 \in {SetFatherOf(t4, ab.v, ab.this.page_id)} |->
                        Let([father_write \in {PageAt(t5, father_page_id)} |->
                        Let([index \in {InternalMatchKey(father_write, ab.begin_key)} |->
                        Let([t6 \in {SetPage(Oob(t5, index), father_page_id,
                                          DeletePair(father_write, index))} |->
                            TreeDeletePage(t6, PageAt(t6, right_id).page_id)])])])])])])
                      ELSE t3])])])])])])])])])])])

\* CheckForInternal(internal_guard).  After MergeForInternal has deleted the
\* page, internal_write points into its reset frame.
RECURSIVE CheckForInternal(_, _)
CheckForInternal(t, pid) ==
  Let([internal_write \in {PageAt(t, pid)} |->
      IF t.fault # {} \/ ~(internal_write.size < GetMinSize(internal_write)) THEN t
      ELSE
        Let([to_distribute_size \in {GetMinSize(internal_write) - internal_write.size} |->
        Let([d \in {IsDistributeForInternal(t, pid, to_distribute_size)} |->
            IF d.id # INVALID_PAGE_ID THEN RedistributeForInternal(d.t, d.id, pid)
            ELSE IF internal_write.size = 0
              THEN
                Let([father_id \in {internal_write.father} |->
                Let([page_id_to_delete \in {internal_write.page_id} |->
                    IF father_id = INVALID_PAGE_ID
                      THEN TreeDeletePage([d.t EXCEPT !.root = INVALID_PAGE_ID], page_id_to_delete)
                      ELSE CheckForInternal(TreeDeletePage(Touch(d.t, father_id), page_id_to_delete),
                                            father_id)])])
              ELSE
                Let([t1 \in {MergeForInternal(d.t, pid)} |->
                Let([father_id \in {PageAt(t1, pid).father} |->
                    IF father_id = INVALID_PAGE_ID THEN t1
                    ELSE CheckForInternal(Touch(t1, father_id), father_id)])])])])])

\* CheckForLeaf(leaf_guard)
CheckForLeaf(t, pid) ==
  Let([leaf_write \in {PageAt(t, pid)} |->
      IF ~(leaf_write.size < GetMinSize(leaf_write)) THEN t
      ELSE
        Let([d \in {IsDistributeForLeaf(t, pid)} |->
            IF d.id # INVALID_PAGE_ID THEN RedistributeForLeaf(d.t, d.id, pid)
            ELSE
              Let([t1 \in {MergeForLeaf(d.t, pid)} |->
              Let([father_id \in {PageAt(t1, pid).father} |->
                  IF father_id = INVALID_PAGE_ID THEN t1
                  ELSE CheckForInternal(Touch(t1, father_id), father_id)])])])])

\* std::nullopt as an update key; no path reads its value.
NullKey == 0

\* DeepDeleteOrUpdate(key, update_key, internal_write, is_update)
RECURSIVE DeepDeleteOrUpdate(_, _, _, _, _)
DeepDeleteOrUpdate(t, key, update_key, pid, is_update) ==
  Let([father_id \in {PageAt(t, pid).father} |->
      IF t.fault # {} \/ father_id = INVALID_PAGE_ID THEN t
      ELSE
        Let([t1 \in {Touch(t, father_id)} |->
        Let([father_write \in {PageAt(t1, father_id)} |->
        Let([father_index \in {InternalMatchKey(father_write, key)} |->
            IF father_index = -1 THEN t1
            ELSE IF is_update
              THEN Let([t2 \in {SetPage(t1, father_id, UpdateKeyKey(father_write, father_index, update_key))} |->
                       IF father_index = 0
                         THEN DeepDeleteOrUpdate(t2, key, update_key, father_id, TRUE)
                         ELSE t2])
              ELSE Let([f1 \in {DeletePair(father_write, father_index)} |->
                   Let([t2 \in {SetPage(t1, father_id, f1)} |->
                       IF father_index # 0 THEN t2
                       ELSE IF f1.size # 0
                         THEN DeepDeleteOrUpdate(t2, key, At(f1.keys, 0), father_id, TRUE)
                         ELSE DeepDeleteOrUpdate(t2, key, update_key, father_id, FALSE)])])])])])])

\* The block Remove, DeepUpdate, DistributionClean and MergeClean repeat for
\* a leaf that lost its first key and is not empty: the father's entry for
\* key takes the leaf's first key, and so do the ancestors if it was the
\* father's first entry.
UpdateFatherEntry(t, pid, key) ==
  Let([leaf_write \in {PageAt(t, pid)} |->
  Let([father_id \in {leaf_write.father} |->
  Let([t1 \in {Touch(t, father_id)} |->
  Let([father_write \in {PageAt(t1, father_id)} |->
  Let([father_index \in {InternalMatchKey(father_write, key)} |->
  Let([t2 \in {SetPage(Oob(t1, father_index), father_id,
                    UpdateKeyKey(father_write, father_index, At(leaf_write.keys, 0)))} |->
      IF father_index = 0
        THEN DeepDeleteOrUpdate(t2, key, At(leaf_write.keys, 0), father_id, TRUE)
        ELSE t2])])])])])])

\* The block they repeat for a leaf that became empty: the father's entry for
\* key is deleted.
DeleteFatherEntry(t, pid, key) ==
  Let([leaf_write \in {PageAt(t, pid)} |->
  Let([father_id \in {leaf_write.father} |->
  Let([t1 \in {Touch(t, father_id)} |->
  Let([father_write \in {PageAt(t1, father_id)} |->
  Let([father_index \in {InternalMatchKey(father_write, key)} |->
  Let([f1 \in {DeletePair(father_write, father_index)} |->
  Let([t2 \in {SetPage(Oob(t1, father_index), father_id, f1)} |->
      IF father_index # 0 THEN t2
      ELSE IF f1.size # 0
        THEN DeepDeleteOrUpdate(t2, key, At(f1.keys, 0), father_id, TRUE)
        ELSE DeepDeleteOrUpdate(t2, key, NullKey, father_id, FALSE)])])])])])])])

SetIsUpdate(t, pid, set) == SetPage(t, pid, [PageAt(t, pid) EXCEPT !.is_update = set])

\* DeepUpdate(leaf_write, temp_key)
DeepUpdate(t, pid, temp_key) ==
  IF PageAt(t, pid).father = INVALID_PAGE_ID THEN t
  ELSE
    Let([leaf_write \in {PageAt(t, pid)} |->
    Let([t1 \in {IF leaf_write.is_update /\ ~LeafIsEmpty(leaf_write)
                THEN SetIsUpdate(UpdateFatherEntry(t, pid, temp_key), pid, FALSE)
                ELSE t} |->
        IF LeafIsEmpty(PageAt(t1, pid)) THEN DeleteFatherEntry(t1, pid, temp_key) ELSE t1])])

\* What DistributionClean and MergeClean do to the father after CleanupTombs.
CleanFather(t, pid) ==
  Let([leaf_write \in {PageAt(t, pid)} |->
      IF leaf_write.is_update /\ ~LeafIsEmpty(leaf_write)
        THEN SetIsUpdate(UpdateFatherEntry(SetIsUpdate(t, pid, FALSE), pid,
                                           leaf_write.before_first_key), pid, FALSE)
      ELSE IF LeafIsEmpty(leaf_write)
        THEN SetIsUpdate(DeleteFatherEntry(SetIsUpdate(t, pid, FALSE), pid,
                                           leaf_write.before_first_key), pid, FALSE)
      ELSE t])

\* DistributionClean(leaf_write): the tree and the bool returned.
DistributionClean(t, pid) ==
  Let([leaf_write \in {PageAt(t, pid)} |->
      IF ~(leaf_write.size < GetMinSize(leaf_write)) THEN [t |-> t, ok |-> FALSE]
      ELSE
        Let([d \in {IsDistributeForLeaf(t, pid)} |->
            IF d.id = INVALID_PAGE_ID THEN [t |-> d.t, ok |-> FALSE]
            ELSE [t |-> CleanFather(SetPage(d.t, pid, CleanupTombs(leaf_write)), pid),
                  ok |-> TRUE]])])

\* IsRightMerge(leaf_write): "false", "true" or "nullopt".
IsRightMerge(t, pid) ==
  Let([leaf_write \in {PageAt(t, pid)} |->
  Let([left_id \in {leaf_write.pre} |->
  Let([right_id \in {leaf_write.next} |->
  Let([t1 \in {IF left_id # INVALID_PAGE_ID THEN Touch(t, left_id) ELSE t} |->
      IF left_id # INVALID_PAGE_ID /\ PageAt(t1, left_id).father = leaf_write.father
        THEN [t |-> t1, r |-> "false"]
      ELSE
        Let([t2 \in {IF right_id # INVALID_PAGE_ID THEN Touch(t1, right_id) ELSE t1} |->
            IF right_id # INVALID_PAGE_ID /\ leaf_write.father = PageAt(t2, right_id).father
              THEN [t |-> t2, r |-> "true"]
              ELSE [t |-> t2, r |-> "nullopt"]])])])])])

\* MergeClean(leaf_guard): the tree and the optional bool returned.
MergeClean(t, pid) ==
  Let([leaf_write \in {PageAt(t, pid)} |->
      IF ~(leaf_write.size < GetMinSize(leaf_write)) THEN [t |-> t, r |-> "nullopt"]
      ELSE
        Let([result \in {IsRightMerge(t, pid)} |->
        Let([t1 \in {CleanFather(SetPage(result.t, pid, CleanupTombs(leaf_write)), pid)} |->
            IF result.r # "nullopt" THEN [t |-> t1, r |-> "true"]
            ELSE
              Let([leaf1 \in {PageAt(t1, pid)} |->
              Let([next_id \in {leaf1.next} |->
              Let([pre_id \in {leaf1.pre} |->
              Let([father_id \in {leaf1.father} |->
              Let([page_id_to_delete \in {leaf1.page_id} |->
              Let([t2 \in {IF next_id # INVALID_PAGE_ID
                          THEN SetPage(Touch(t1, next_id), next_id,
                                       [PageAt(t1, next_id) EXCEPT !.pre = pre_id])
                          ELSE t1} |->
              Let([t3 \in {IF pre_id # INVALID_PAGE_ID
                          THEN SetPage(Touch(t2, pre_id), pre_id,
                                       [PageAt(t2, pre_id) EXCEPT !.next = next_id])
                          ELSE t2} |->
              Let([t4 \in {TreeDeletePage(t3, page_id_to_delete)} |->
                  IF father_id = INVALID_PAGE_ID THEN [t |-> t4, r |-> "false"]
                  ELSE [t |-> CheckForInternal(Touch(t4, father_id), father_id), r |-> "false"]])])])])])])])])])])])

\* Remove(key)
TreeRemove(t0, key) ==
  IF t0.root = INVALID_PAGE_ID THEN t0
  ELSE
    Let([l \in {LocateKey(t0, key)} |->
    Let([page_id \in {l.page_id} |->
    Let([t1 \in {Touch(l.t, page_id)} |->
    Let([t2 \in {SetPage(t1, page_id, LeafDelete(PageAt(t1, page_id), key))} |->
    Let([leaf_write \in {PageAt(t2, page_id)} |->
    Let([t3 \in {IF LEAF_PAGE_TOMB_CNT # 0 /\ leaf_write.need_deep_update
                THEN
                  Let([a \in {SetPage(t2, page_id, [leaf_write EXCEPT !.need_deep_update = FALSE])} |->
                  Let([b \in {IF leaf_write.is_update /\ ~LeafIsEmpty(leaf_write)
                             THEN DeepUpdate(a, page_id, leaf_write.before_first_key)
                           ELSE IF leaf_write.is_update /\ LeafIsEmpty(leaf_write)
                             THEN SetIsUpdate(DeleteFatherEntry(a, page_id,
                                                                leaf_write.before_first_key),
                                              page_id, FALSE)
                           ELSE a} |->
                      IF IsTombstone(PageAt(b, page_id), 0) THEN SetIsUpdate(b, page_id, TRUE) ELSE b])])
                ELSE t2} |->
    Let([dc \in {DistributionClean(t3, page_id)} |->
        IF dc.ok THEN CheckForLeaf(dc.t, page_id)
        ELSE Let([mc \in {MergeClean(dc.t, page_id)} |->
                 IF mc.r = "false" THEN mc.t
                 ELSE CheckForLeaf(mc.t, page_id)])])])])])])])])

(* ---------------- BPlusTree: iteration ---------------- *)
\* The loops of Begin() below the root: temp_id is followed through
\* ValueAt(0) until a leaf is read.
RECURSIVE BeginLoop(_, _, _)
BeginLoop(t, temp_id, fuel) ==
  Let([t1 \in {Touch(t, temp_id)} |->
  Let([pg \in {PageAt(t1, temp_id)} |->
      IF t1.fault # {} THEN [page_id |-> INVALID_PAGE_ID, defined |-> FALSE]
      ELSE IF IsLeafPage(pg) THEN [page_id |-> temp_id, defined |-> TRUE]
      ELSE IF fuel = 0 THEN [page_id |-> INVALID_PAGE_ID, defined |-> FALSE]
      ELSE IF pg.page_id # temp_id THEN [page_id |-> INVALID_PAGE_ID, defined |-> TRUE]
      ELSE BeginLoop(t1, At(pg.vals, 0), fuel - 1)])])

\* Begin(): the page id handed to the iterator, and whether every page read
\* on the way was a page of the tree.  The root page is read whatever the
\* header holds.
Begin(t) ==
  Let([t1 \in {Touch(t, t.root)} |->
  Let([temp_root_page \in {PageAt(t1, t.root)} |->
      IF t1.fault # {} THEN [page_id |-> INVALID_PAGE_ID, defined |-> FALSE]
      ELSE IF IsLeafPage(temp_root_page) THEN [page_id |-> temp_root_page.page_id, defined |-> TRUE]
      ELSE BeginLoop(t1, At(temp_root_page.vals, 0), MaxWalk)])])

\* The keys and values of the slots of a leaf that are not tombstones, in
\* slot order.
LiveSlots(pg) ==
  Let([live \in {SelectSeq([j \in 1 .. Max(pg.size, 0) |-> j - 1], LAMBDA i : ~IsTombstone(pg, i))} |->
      [j \in 1 .. Len(live) |-> <<At(pg.keys, live[j]), At(pg.vals, live[j])>>]])

\* IndexIterator(bpm, page_id) followed by operator* and operator++ until
\* IsEnd(): the pairs yielded.
RECURSIVE Walk(_, _, _)
Walk(t, page_id, fuel) ==
  IF page_id = INVALID_PAGE_ID THEN [pairs |-> <<>>, defined |-> TRUE]
  ELSE IF fuel = 0 \/ Touch(t, page_id).fault # {} \/ ~IsLeafPage(PageAt(t, page_id))
    THEN [pairs |-> <<>>, defined |-> FALSE]
  ELSE Let([pg \in {PageAt(t, page_id)} |->
       Let([rest \in {Walk(t, pg.next, fuel - 1)} |->
           [pairs |-> LiveSlots(pg) \o rest.pairs, defined |-> rest.defined]])])

\* for (it = Begin(); it != End(); ++it)
Scan(t) ==
  Let([b \in {Begin(t)} |->
      IF ~b.defined THEN [pairs |-> <<>>, defined |-> FALSE] ELSE Walk(t, b.page_id, MaxWalk)])

(* ---------------- the tree under a sequence of calls ---------------- *)
\* What a lookup of key has to return after the calls so far.
Expected(key) == IF key \in DOMAIN contents THEN <<contents[key]>> ELSE <<>>

\* BPlusTree<..., NumTombs> tree(name, header_page_id, bpm, comparator,
\* leaf_max_size, internal_max_size)
Construct(n) ==
  /\ NumTombs = NotConstructed
  /\ NumTombs' = n
  /\ bpt' = [bpt EXCEPT !.root = INVALID_PAGE_ID, !.leaf_max_size_ = leaf_max_size,
                       !.internal_max_size_ = internal_max_size]
  /\ UNCHANGED <<contents, inserted, phase, tree_ops, call, before, poolVars, concVars>>

TreeReady == NumTombs # NotConstructed /\ bpt.fault = {}

\* tree.Insert(key, value) on a pool that can allocate the pages of avail.
\* contents is what the calls so far have put into the index; phase is "ins"
\* while they were inserts of distinct keys, "del" while removes of keys
\* present followed those, "any" afterwards.
Inserted(key, value, avail) ==
  /\ \E r \in {TreeInsert([bpt EXCEPT !.avail = avail], key, value)} :
        /\ bpt' = [r.t EXCEPT !.avail = {}, !.denied = FALSE]
        /\ call' = [op |-> "Insert", key |-> key, value |-> value, was |-> Expected(key),
                    ret |-> r.ok, denied |-> r.t.denied]
        /\ contents' = IF key \in DOMAIN contents \/ (r.t.denied /\ ~r.ok)
                         THEN contents ELSE MapPut(contents, key, value)
  /\ before' = bpt
  /\ inserted' = inserted \cup {key}
  /\ phase' = IF phase = "ins" /\ key \notin inserted THEN "ins" ELSE "any"
  /\ tree_ops' = tree_ops + 1
  /\ UNCHANGED <<NumTombs, poolVars, concVars>>

InsertWith(key, value, avail) ==
  TreeReady /\ tree_ops < MaxTreeOps /\ Inserted(key, value, avail)

\* tree.Insert(key, value) on the pool of the tests, which has frames to spare.
DoInsert(key, value) == InsertWith(key, value, {})

\* tree.Insert(key, value) while the other users of the pool leave it n
\* frames that are free or evictable.
DoInsertOnFullPool(key, value, n) == InsertWith(key, value, {n})

\* tree.Remove(key)
Removed(key) ==
  /\ bpt' = TreeRemove(bpt, key)
  /\ call' = [op |-> "Remove", key |-> key, value |-> 0, was |-> Expected(key), ret |-> TRUE,
               denied |-> FALSE]
  /\ before' = bpt
  /\ contents' = MapErase(contents, key)
  /\ phase' = IF phase \in {"ins", "del"} /\ key \in DOMAIN contents THEN "del" ELSE "any"
  /\ tree_ops' = tree_ops + 1
  /\ UNCHANGED <<NumTombs, inserted, poolVars, concVars>>

DoRemove(key) == TreeReady /\ tree_ops < MaxTreeOps /\ Removed(key)

TreeNext ==
  \/ \E n \in 0 .. MaxNumTombs : Construct(n)
  \/ \E key \in Keys, value \in Rids : DoInsert(key, value)
  \/ \E key \in Keys : DoRemove(key)

SpecTree == Init /\ [][TreeNext]_vars

\* Inserts into the tree on a pool that its other users can fill up.
MaxAvail == 1

TreePoolNext ==
  \/ \E n \in 0 .. MaxNumTombs : Construct(n)
  \/ \E key \in Keys, value \in Rids : DoInsert(key, value)
  \/ \E key \in Keys, value \in Rids, n \in 0 .. MaxAvail : DoInsertOnFullPool(key, value, n)

SpecTreePool == Init /\ [][TreePoolNext]_vars

\* InsertHelper: the rid a thread inserts for a key is made from the key.
RidOfKey(key) == ((key - 1) % MaxRid) + 1

(* ---------------- a tree with wider leaves ---------------- *)
\* Leaves of six slots can lend a slot to a sibling: a leaf that a Remove
\* left below its minimum size of three borrows from a sibling of five.
\* The program inserts the keys in ascending order, as the tests do,
\* removes keys in any order in between and inserts removed keys again.
wide_leaf_max_size == 6
MaxWideKey == 8
MaxWideOps == 11

WideKeys == 1 .. MaxWideKey

ConstructWide(n) ==
  /\ NumTombs = NotConstructed
  /\ NumTombs' = n
  /\ bpt' = [bpt EXCEPT !.root = INVALID_PAGE_ID, !.leaf_max_size_ = wide_leaf_max_size,
                       !.internal_max_size_ = internal_max_size]
  /\ UNCHANGED <<contents, inserted, phase, tree_ops, call, before, poolVars, concVars>>

\* The key after the keys inserted so far.
NextKey == Cardinality(inserted) + 1

WideInsert ==
  /\ TreeReady /\ tree_ops < MaxWideOps /\ NextKey <= MaxWideKey
  /\ Inserted(NextKey, RidOfKey(NextKey), {})

\* A key the program removed is inserted again.
WideInsertAgain(key) ==
  /\ TreeReady /\ tree_ops < MaxWideOps /\ key \in inserted \ DOMAIN contents
  /\ Inserted(key, RidOfKey(key), {})

WideRemove(key) == TreeReady /\ tree_ops < MaxWideOps /\ Removed(key)

TreeWideNext ==
  \/ \E n \in 1 .. MaxNumTombs : ConstructWide(n)
  \/ WideInsert
  \/ \E key \in WideKeys : WideInsertAgain(key)
  \/ \E key \in WideKeys : WideRemove(key)

SpecTreeWide == Init /\ [][TreeWideNext]_vars

(* ---------------- a tree of three levels ---------------- *)
\* Internal pages of four slots can lend a child to a sibling.  The program
\* first inserts distinct keys in any order, then removes keys.
deep_internal_max_size == 4
MaxDeepKey == 7
MaxDeepOps == 10

DeepKeys == 1 .. MaxDeepKey

ConstructDeep ==
  /\ NumTombs = NotConstructed
  /\ NumTombs' = 0
  /\ bpt' = [bpt EXCEPT !.root = INVALID_PAGE_ID, !.leaf_max_size_ = leaf_max_size,
                        !.internal_max_size_ = deep_internal_max_size]
  /\ UNCHANGED <<contents, inserted, phase, tree_ops, call, before, poolVars, concVars>>

DeepInsert(key) ==
  /\ TreeReady /\ tree_ops < MaxDeepOps /\ phase = "ins" /\ key \notin inserted
  /\ Inserted(key, RidOfKey(key), {})

DeepRemove(key) ==
  /\ TreeReady /\ tree_ops < MaxDeepOps /\ key \in DOMAIN contents
  /\ Removed(key)

TreeDeepNext ==
  \/ ConstructDeep
  \/ \E key \in DeepKeys : DeepInsert(key)
  \/ \E key \in DeepKeys : DeepRemove(key)

SpecTreeDeep == Init /\ [][TreeDeepNext]_vars

(* ---------------- threads inserting into the tree ---------------- *)
\* Inserts begun by the threads of one run.
MaxConcInserts == 4

\* The call of thread t has returned.
InsertReturns(t, r, key, value) ==
  /\ bpt' = r.t
  /\ call' = [op |-> "Insert", key |-> key, value |-> value, was |-> Expected(key),
              ret |-> r.ok, denied |-> FALSE]
  /\ before' = bpt
  /\ contents' = IF key \in DOMAIN contents THEN contents ELSE MapPut(contents, key, value)
  /\ pc' = [pc EXCEPT ![t] = Idle]

\* The guard on the header page that a thread holds after
\* header_guard.Drop(), and after header_guard_w has gone out of scope at
\* the end of the block that makes the root: none.  A thread's record keeps
\* in kind the mode of the guard it holds on the header page.
HeaderGuardAfterDrop == "none"

\* Thread t calls Insert(key, rid): it reads the root page id under a read
\* guard of the header page.  If the tree has a root, the thread keeps that
\* guard and finishes the insert; the other threads, which hold no guard
\* between their steps, do not take part.  If the tree is empty, the thread
\* drops the read guard and goes on to make a root.
ThreadInsert(t, key) ==
  /\ TreeReady
  /\ tree_ops < MaxConcInserts
  /\ pc[t].op = "idle"
  /\ tree_ops' = tree_ops + 1
  /\ inserted' = inserted \cup {key}
  /\ IF bpt.root = INVALID_PAGE_ID
       THEN /\ pc' = [pc EXCEPT ![t] = [Idle EXCEPT !.op = "NewRoot", !.g = key,
                                                     !.kind = HeaderGuardAfterDrop]]
            /\ UNCHANGED <<bpt, call, before, contents>>
       ELSE \E r \in {InsertIntoTree(bpt, key, RidOfKey(key))} :
              InsertReturns(t, r, key, RidOfKey(key))
  /\ UNCHANGED <<NumTombs, phase, bpm_latch, poolVars>>

\* Thread t, which found the tree empty, takes the write guard of the header
\* page, makes a new page the root and releases the guard.
ThreadNewRoot(t) ==
  /\ pc[t].op = "NewRoot"
  /\ bpt' = NewRoot(bpt)
  /\ pc' = [pc EXCEPT ![t].op = "IntoTree"]
  /\ UNCHANGED <<NumTombs, contents, inserted, phase, tree_ops, call, before, bpm_latch, poolVars>>

\* Thread t goes on from the root the header names now.
ThreadIntoTree(t) ==
  /\ pc[t].op = "IntoTree"
  /\ \E r \in {InsertIntoTree(bpt, pc[t].g, RidOfKey(pc[t].g))} :
        InsertReturns(t, r, pc[t].g, RidOfKey(pc[t].g))
  /\ UNCHANGED <<NumTombs, inserted, phase, tree_ops, bpm_latch, poolVars>>

TreeConcNext ==
  \/ \E n \in 0 .. MaxNumTombs : Construct(n)
  \/ \E t \in Threads, key \in Keys : ThreadInsert(t, key)
  \/ \E t \in Threads : ThreadNewRoot(t)
  \/ \E t \in Threads : ThreadIntoTree(t)

SpecTreeConc == Init /\ [][TreeConcNext]_vars

(* ---------------- the replacer under a sequence of calls ---------------- *)
\* The frame ids the callers pass: one more than the replacer has room for,
\* as in ReplacerSizeTest, which records an access of frame capacity + 1.
ArcFrames == 0 .. NumFrames
ArcPages == 0 .. MaxPages
MaxArcOps == 7

\* A call on the replacer has returned: call is the call with its arguments
\* and its result, before is the replacer the call found.
ArcReturns(op, fid, pid, ev, r, res) ==
  /\ replacer' = r
  /\ call' = [op |-> op, frame_id |-> fid, page_id |-> pid, set_evictable |-> ev, ret |-> res]
  /\ before' = replacer
  /\ ops' = ops + 1
  /\ UNCHANGED <<page_table, free_frames, frames, next_page_id, disk, guards, lastw, victim,
                 trapped, concVars, NumTombs, bpt, contents, inserted, phase, tree_ops>>

\* What the callers of RecordAccess keep to: a resident frame is accessed
\* with the page it holds, and a frame that is not resident is given a page
\* that no resident frame holds.
HoldsPage(r, fid, pid) ==
  IF fid \in DOMAIN r.alive_map
  THEN r.alive_map[fid].page_id = pid
  ELSE \A f \in DOMAIN r.alive_map : r.alive_map[f].page_id # pid

ArcRecordAccess(fid, pid) ==
  /\ ops < MaxArcOps
  /\ HoldsPage(replacer, fid, pid)
  /\ ArcReturns("RecordAccess", fid, pid, FALSE, RecordAccess(replacer, fid, pid), {})

ArcSetEvictable(fid, ev) ==
  /\ ops < MaxArcOps
  /\ ArcReturns("SetEvictable", fid, INVALID_PAGE_ID, ev, SetEvictable(replacer, fid, ev), {})

ArcRemove(fid) ==
  /\ ops < MaxArcOps
  /\ ArcReturns("Remove", fid, INVALID_PAGE_ID, FALSE, Remove(replacer, fid), {})

\* Evict(): ret is the frame returned, if any.
ArcEvict ==
  /\ ops < MaxArcOps
  /\ \E e \in {Evict(replacer)} :
       ArcReturns("Evict", INVALID_PAGE_ID, INVALID_PAGE_ID, FALSE, e.rep, e.res)

ArcNext ==
  \/ \E fid \in ArcFrames, pid \in ArcPages : ArcRecordAccess(fid, pid)
  \/ \E fid \in ArcFrames, ev \in BOOLEAN : ArcSetEvictable(fid, ev)
  \/ \E fid \in ArcFrames : ArcRemove(fid)
  \/ ArcEvict

SpecArc == Init /\ [][ArcNext]_vars

(* ---------------- the replacer after a warm-up ---------------- *)
\* The loop of MruTargetSizeBoundaryTest: a frame is given a page, accessed
\* again or not, made evictable and evicted, which leaves the page in
\* mfu_ghost_ or in mru_ghost_.
MaxWarm == 3
MaxWarmOps == 6

AccessAndEvict(r, fid, pid, again) ==
  Let([r1 \in {RecordAccess(r, fid, pid)} |->
  Let([r2 \in {IF again THEN RecordAccess(r1, fid, pid) ELSE r1} |->
     Evict(SetEvictable(r2, fid, TRUE)).rep])])

\* The rounds s[1], ..., s[i] of the loop, round j on page j - 1.
RECURSIVE WarmUp(_, _)
WarmUp(s, i) ==
  IF i = 0
  THEN ArcReplacer(NumFrames)
  ELSE AccessAndEvict(WarmUp(s, i - 1), 0, i - 1, s[i])

WarmReplacers ==
  {WarmUp(s, Len(s)) : s \in UNION {[1 .. n -> BOOLEAN] : n \in 0 .. MaxWarm}}

\* The replacer has been through a warm-up; MaxWarmOps calls follow.
WarmInit ==
  /\ PoolInitButReplacer /\ ConcInit /\ TreeInit
  /\ replacer \in WarmReplacers
  /\ ops = MaxArcOps - MaxWarmOps

SpecArcWarm == WarmInit /\ [][ArcNext]_vars

(* ---------------- the replacer called from several threads ---------------- *)
\* A few calls are made one after the other, then every thread makes one
\* call.  Each call runs under latch_ and is one step, but for RecordAccess
\* of a new page at capacity, which unlocks latch_, calls Evict() and locks
\* latch_ again: three steps.
MaxArcSetup == 3

ArcCall(kind, fid, pid, ev) ==
  [op |-> "done", kind |-> kind, frame_id |-> fid, page_id |-> pid, set_evictable |-> ev]

ArcCalls ==
  {ArcCall("RecordAccess", fid, pid, FALSE) : fid \in ArcFrames, pid \in ArcPages}
    \cup {ArcCall("SetEvictable", fid, INVALID_PAGE_ID, ev) : fid \in ArcFrames, ev \in BOOLEAN}
    \cup {ArcCall("Remove", fid, INVALID_PAGE_ID, FALSE) : fid \in ArcFrames}
    \cup {ArcCall("Evict", INVALID_PAGE_ID, INVALID_PAGE_ID, FALSE)}

\* The replacer after the call c made on r with no other call under way.
ApplyCall(r, c) ==
  CASE c.kind = "RecordAccess" -> RecordAccess(r, c.frame_id, c.page_id)
    [] c.kind = "SetEvictable" -> SetEvictable(r, c.frame_id, c.set_evictable)
    [] c.kind = "Remove" -> Remove(r, c.frame_id)
    [] OTHER -> Evict(r).rep

ArcConcInit ==
  /\ PoolInitButReplacer /\ ConcInit /\ TreeInit
  /\ replacer = ArcReplacer(NumFrames)
  /\ ops = MaxArcOps - MaxArcSetup

\* Thread t makes the call c: all of it, or RecordAccess up to lock.unlock().
\* before is the replacer that the first of the threads found.
ThreadCalls(t, c) ==
  /\ ops = MaxArcOps
  /\ pc[t].op = "idle"
  /\ c.kind = "RecordAccess" => HoldsPage(replacer, c.frame_id, c.page_id)
  /\ before' = IF \A u \in Threads : pc[u].op = "idle" THEN replacer ELSE before
  /\ IF /\ c.kind = "RecordAccess"
        /\ c.page_id \notin DOMAIN replacer.ghost_map
        /\ c.frame_id \notin DOMAIN replacer.alive_map
        /\ Len(replacer.mru) + Len(replacer.mfu) = replacer.replacer_size
     THEN /\ pc' = [pc EXCEPT ![t] = [c EXCEPT !.op = "Evict"]]
          /\ UNCHANGED replacer
     ELSE /\ pc' = [pc EXCEPT ![t] = c]
          /\ replacer' = ApplyCall(replacer, c)
  /\ UNCHANGED <<page_table, free_frames, frames, next_page_id, disk, guards, lastw, victim,
                 trapped, ops, bpm_latch, NumTombs, bpt, contents, inserted, phase, tree_ops, call>>

\* auto id = Evict(), and the return when it has no value.
ThreadEvicts(t) ==
  /\ pc[t].op = "Evict"
  /\ \E e \in {Evict(replacer)} :
       /\ replacer' = e.rep
       /\ pc' = [pc EXCEPT ![t].op = IF e.res = {} THEN "done" ELSE "Insert"]
  /\ UNCHANGED <<page_table, free_frames, frames, next_page_id, disk, guards, lastw, victim,
                 trapped, ops, bpm_latch, treeVars>>

\* The insertion of a new page takes back() and pop_back() of an empty
\* mru_ghost_: with N + 1 frames in mru_ and no ghost, the test
\* |mru_| + |mru_ghost_| - 1 = N passes.
PopsEmptyGhost(r) ==
  /\ ~(Len(r.mru) + Len(r.mfu) + Len(r.mru_ghost) + Len(r.mfu_ghost) = r.replacer_size * 2
        /\ r.mfu_ghost # <<>>)
  /\ Len(r.mru) + Len(r.mru_ghost) = r.replacer_size
  /\ r.mru_ghost = <<>>

\* lock.lock() and the insertion of the new page.  Where the insertion pops
\* the empty list the behaviour is undefined: the process is aborted, or the
\* call returns with the ghost lists as they were.
ThreadInserts(t) ==
  /\ pc[t].op = "Insert"
  /\ IF PopsEmptyGhost(replacer)
     THEN /\ replacer' = [replacer EXCEPT
                            !.alive_map = MapPut(@, pc[t].frame_id,
                                                 FrameStatus(pc[t].page_id, pc[t].frame_id, FALSE, "MRU")),
                            !.mru = PushFront(pc[t].frame_id, @)]
          /\ \E outcome \in {"done", "aborted"} : pc' = [pc EXCEPT ![t].op = outcome]
     ELSE /\ replacer' = RecordMissInsert(replacer, pc[t].frame_id, pc[t].page_id)
          /\ pc' = [pc EXCEPT ![t].op = "done"]
  /\ UNCHANGED <<page_table, free_frames, frames, next_page_id, disk, guards, lastw, victim,
                 trapped, ops, bpm_latch, treeVars>>

ArcConcNext ==
  \/ \E fid \in ArcFrames, pid \in ArcPages : ArcRecordAccess(fid, pid)
  \/ \E fid \in ArcFrames, ev \in BOOLEAN : ArcSetEvictable(fid, ev)
  \/ \E fid \in ArcFrames : ArcRemove(fid)
  \/ ArcEvict
  \/ \E t \in Threads, c \in ArcCalls : ThreadCalls(t, c)
  \/ \E t \in Threads : ThreadEvicts(t)
  \/ \E t \in Threads : ThreadInserts(t)

SpecArcConc == ArcConcInit /\ [][ArcConcNext]_vars

(* ---------------- claims about the tree ---------------- *)
\* GetValue(key) read only pages of the tree and returned what is expected.
LookupAgrees(key) ==
  LET g == GetValue(bpt, key) IN g.defined /\ g.result = Expected(key)

\* The keys a traversal from Begin() to End() yields, in the order yielded.
ScanKeys == LET s == Scan(bpt) IN [j \in 1 .. Len(s.pairs) |-> s.pairs[j][1]]

\* Every key of a sequence of inserts with distinct keys has been removed.
AllDeleted == phase = "del" /\ DOMAIN contents = {}

\* C9: round trip.  After a sequence of inserts with distinct keys every
\* lookup returns the inserted value (and nothing for a key not inserted);
\* after all the keys inserted have been removed, Begin() is the end iterator:
\* the traversal reads only pages of the tree and yields nothing.
C9_RoundTrip ==
  /\ (NumTombs # NotConstructed /\ phase = "ins") => \A key \in Keys : LookupAgrees(key)
  /\ AllDeleted => (Scan(bpt).defined /\ Scan(bpt).pairs = <<>>)

\* C10: after any sequence of inserts and removes, a traversal from the
\* leftmost leaf along next_page_id yields the live keys in strictly
\* ascending order, and exactly the keys currently in the tree.  Stated for
\* the traversals that read only pages of the tree.
C10_TraversalAscendingAndExact ==
  (NumTombs # NotConstructed /\ Scan(bpt).defined) =>
    /\ \A i, j \in 1 .. Len(ScanKeys) : i < j => ScanKeys[i] < ScanKeys[j]
    /\ {ScanKeys[i] : i \in 1 .. Len(ScanKeys)} = DOMAIN contents

\* Key is in the tree and not deleted: a lookup in t finds a value for it.
KeyLive(t, key) == GetValue(t, key).defined /\ GetValue(t, key).result # <<>>

KeyAbsent(t, key) == GetValue(t, key).defined /\ GetValue(t, key).result = <<>>

\* C12: a Remove of a key that is not in the tree leaves every leaf's entries
\* and tombstones, the structure of the tree and the root page id as they
\* were, and reads and writes only pages of the tree.
C12_RemoveOfAbsentKeyChangesNothing ==
  (call.op = "Remove" /\ call.was = <<>> /\ KeyAbsent(before, call.key)) => bpt = before

\* C13: an Insert during which the pool refused a page (for the first root,
\* a leaf split, an internal split or a new root) returns false.
C13_ExhaustedInsertReturnsFalse ==
  (call.op = "Insert" /\ call.denied) => ~call.ret


\* Threads have called Insert and every call has returned.
AllReturned == inserted # {} /\ \A t \in Threads : pc[t].op = "idle"

\* C14: when threads have inserted concurrently, also the same keys and
\* starting from the empty tree, and all have returned, the tree holds
\* exactly the keys inserted, each with the value inserted for it, and the
\* traversal yields them once each in ascending order.
C14_ConcurrentInsertsAllPresent ==
  AllReturned =>
    /\ \A key \in Keys : LookupAgrees(key)
    /\ Scan(bpt).defined
    /\ \A i, j \in 1 .. Len(ScanKeys) : i < j => ScanKeys[i] < ScanKeys[j]
    /\ {ScanKeys[i] : i \in 1 .. Len(ScanKeys)} = inserted


\* The leaves of the tree: the pages allocated and not deleted that are leaf pages.
Leaves(t) == {p \in 1 .. Len(t.pages) : Allocated(t, p) /\ IsLeafPage(t.pages[p])}

\* The slots of a leaf that hold a key not deleted.
LiveIndexes(pg) == {i \in 0 .. pg.size - 1 : ~IsTombstone(pg, i)}

\* C15: in a tree whose leaves have a tombstone buffer, after every Insert
\* and Remove (with the splits, borrowings and merges they made) every leaf
\* has at most LEAF_PAGE_TOMB_CNT tombstones, and its size less its number
\* of tombstones is the number of its live keys.
C15_TombstoneCountsAgree ==
  NumTombs > 0 =>
    \A p \in Leaves(bpt) :
      /\ Len(bpt.pages[p].tombs) <= LEAF_PAGE_TOMB_CNT
      /\ bpt.pages[p].size - Len(bpt.pages[p].tombs) = Cardinality(LiveIndexes(bpt.pages[p]))


\* The keys in the slots of a leaf.
LeafKeys(pg) == {At(pg.keys, i) : i \in 0 .. pg.size - 1}

\* Leaf p holds a key after the call that its sibling q held before it.
Borrowed(p, q) ==
  /\ {p, q} \subseteq Leaves(bpt) \cap Leaves(before) /\ p # q
  /\ (LeafKeys(bpt.pages[p]) \cap LeafKeys(before.pages[q])) \ LeafKeys(before.pages[p]) # {}

\* A Remove of a live key from a leaf whose tombstone buffer was full left
\* the leaf below its minimum size, and the leaf borrowed from a sibling that
\* holds a tombstone of its own.
C15_Witness ==
  /\ NumTombs > 0 /\ call.op = "Remove" /\ call.was # <<>> /\ bpt.fault = {}
  /\ \E p, q \in Leaves(bpt) :
        /\ Borrowed(p, q)
        /\ Len(before.pages[p].tombs) = LEAF_PAGE_TOMB_CNT
        /\ bpt.pages[q].tombs # <<>>
        /\ bpt.pages[q].size - Len(bpt.pages[q].tombs) = Cardinality(LiveIndexes(bpt.pages[q]))


\* Slot i of leaf p of tree t holds key under a tombstone.
Tombstoned(t, p, i, key) ==
  /\ p \in Leaves(t) /\ i \in 0 .. t.pages[p].size - 1
  /\ At(t.pages[p].keys, i) = key /\ IsTombstone(t.pages[p], i)

\* The slots a leaf can have.
Slots == 0 .. Max(leaf_max_size, wide_leaf_max_size) - 1

\* What InsertKeyValue(key, value) makes of leaf p of the tree before the call.
InsertedInto(p) == LeafInsertKeyValue(before.pages[p], call.key, call.value)

LiveAt(t, p, i, key) ==
  /\ p \in Leaves(t) /\ i \in 0 .. t.pages[p].size - 1
  /\ At(t.pages[p].keys, i) = key /\ ~IsTombstone(t.pages[p], i)

\* The tombstone buffer of leaf p of tree t is full.
BufferFull(t, p) == Len(t.pages[p].tombs) >= LEAF_PAGE_TOMB_CNT

\* What Delete(key) makes of leaf p of the tree before the call.
DeletedFrom(p) == LeafDelete(before.pages[p], call.key)

\* Slot index x after the slot o below it has been removed.
After(o, x) == IF x > o THEN x - 1 ELSE x

\* C17: a Delete of a live key from a leaf whose tombstone buffer is full
\* removes the slot of the oldest tombstone first: the entries above it
\* move down by one, the size drops by one, the other tombstones keep their
\* order with every index above the removed slot decremented; then the
\* tombstone of the deleted key is appended as the newest.
C17_OldestTombstoneRetiredFirst ==
  \A p \in Leaves(before), i \in Slots :
    (/\ call.op = "Remove" /\ NumTombs > 0
     /\ LiveAt(before, p, i, call.key) /\ BufferFull(before, p)) =>
      \E o \in {before.pages[p].tombs[1]} :
        /\ DeletedFrom(p).size = before.pages[p].size - 1
        /\ \A j \in 0 .. DeletedFrom(p).size - 1 :
              /\ At(DeletedFrom(p).keys, j) = At(before.pages[p].keys, IF j < o THEN j ELSE j + 1)
              /\ At(DeletedFrom(p).vals, j) = At(before.pages[p].vals, IF j < o THEN j ELSE j + 1)
        /\ Len(DeletedFrom(p).tombs) = Len(before.pages[p].tombs)
        /\ \A k \in 1 .. Len(before.pages[p].tombs) - 1 :
              DeletedFrom(p).tombs[k] = After(o, before.pages[p].tombs[k + 1])
        /\ DeletedFrom(p).tombs[Len(DeletedFrom(p).tombs)] = After(o, i)
        /\ At(DeletedFrom(p).keys, After(o, i)) = call.key


\* C18: when a Remove has taken the last live key out of the tree, the
\* header's root page id is INVALID_PAGE_ID at its return, so that IsEmpty()
\* is true and Begin() is the end iterator.
C18_EmptiedTreeHasNoRoot ==
  (call.op = "Remove" /\ call.was # <<>> /\ DOMAIN contents = {}) =>
    bpt.root = INVALID_PAGE_ID


(* ---------------- claims about the replacer ---------------- *)
\* The frames in mru_ or mfu_ whose evictable flag is set.
EvictableResident ==
  {f \in DOMAIN replacer.alive_map :
     replacer.alive_map[f].evictable /\ (InSeq(f, replacer.mru) \/ InSeq(f, replacer.mfu))}

\* C19: after any sequence of RecordAccess, SetEvictable, Remove and Evict
\* calls, Size() is the number of resident frames that are evictable.
C19_SizeCountsEvictableResident ==
  replacer.curr_size = Cardinality(EvictableResident)

\* RecordAccess has just resurrected a page from a ghost list while another
\* resident frame is evictable.
C19_Witness ==
  /\ call.op = "RecordAccess"
  /\ call.page_id \in DOMAIN before.ghost_map
  /\ call.frame_id \in DOMAIN replacer.alive_map \ DOMAIN before.alive_map
  /\ replacer.curr_size > 0
  /\ EvictableResident # {}

\* C20: after every call on the replacer, mru_ and mfu_ together hold at
\* most replacer_size_ frames.
C20_ResidentWithinCapacity ==
  Len(replacer.mru) + Len(replacer.mfu) <= replacer.replacer_size


\* The number of times x occurs in the list s.
Count(x, s) == Cardinality({i \in 1 .. Len(s) : s[i] = x})

\* The list that the status names.
ListOf(r, st) ==
  CASE st = "MRU" -> r.mru
    [] st = "MFU" -> r.mfu
    [] st = "MRU_GHOST" -> r.mru_ghost
    [] OTHER -> r.mfu_ghost

\* The ids the replacer knows: the frames of alive_map_ and of the two
\* resident lists, the pages of ghost_map_ and of the two ghost lists.
KnownFrames(r) == DOMAIN r.alive_map \cup {r.mru[i] : i \in 1 .. Len(r.mru)}
                    \cup {r.mfu[i] : i \in 1 .. Len(r.mfu)}

KnownPages(r) == DOMAIN r.ghost_map \cup {r.mru_ghost[i] : i \in 1 .. Len(r.mru_ghost)}
                   \cup {r.mfu_ghost[i] : i \in 1 .. Len(r.mfu_ghost)}

MruGhostHit == call.op = "RecordAccess" /\ InSeq(call.page_id, before.mru_ghost)

MfuGhostHit == call.op = "RecordAccess" /\ InSeq(call.page_id, before.mfu_ghost)

EvictablePositions(r, lst) ==
  {i \in 1 .. Len(lst) : lst[i] \in DOMAIN r.alive_map /\ r.alive_map[lst[i]].evictable}

\* The evictable entry of the list closest to its LRU end (the back), if any.
LruVictim(r, lst) ==
  {lst[i] : i \in {j \in EvictablePositions(r, lst) :
                      \A k \in EvictablePositions(r, lst) : k <= j}}

\* The victim when the MRU side is taken first, or the MFU side; the other
\* side is taken when the first has no evictable entry.
VictimOf(r, mruFirst) ==
  IF mruFirst
  THEN (IF LruVictim(r, r.mru) # {} THEN LruVictim(r, r.mru) ELSE LruVictim(r, r.mfu))
  ELSE (IF LruVictim(r, r.mfu) # {} THEN LruVictim(r, r.mfu) ELSE LruVictim(r, r.mru))

\* C24 as stated: Evict takes its victim from the MRU side if |mru| > p or
\* mfu has no evictable entry, and otherwise from the MFU side; the victim is
\* the evictable entry of that side closest to the LRU end, and Evict
\* returns none if no resident frame is evictable.
C24_MruSideOnlyAboveTarget ==
  call.op = "Evict" =>
    call.ret = VictimOf(before, Len(before.mru) > before.mru_target_size)

\* C24: Evict takes its victim from the MRU side if |mru| >= p or mfu has no
\* evictable entry, and otherwise from the MFU side; the victim is the
\* evictable entry of that side closest to the LRU end, and Evict returns
\* none if no resident frame is evictable.
C24_MruSideAtOrAboveTarget ==
  call.op = "Evict" =>
    call.ret = VictimOf(before, Len(before.mru) >= before.mru_target_size)

\* Evict has returned with |mru| equal to a positive target and evictable
\* frames on both sides: the victim came from the MRU side.
C24_Witness ==
  /\ call.op = "Evict"
  /\ before.mru_target_size > 0
  /\ Len(before.mru) = before.mru_target_size
  /\ LruVictim(before, before.mru) # {}
  /\ LruVictim(before, before.mfu) # {}
  /\ call.ret = LruVictim(before, before.mru)


\* The pages that the ghost map remembers as evicted from frame f.
GhostsOf(r, f) == {p \in DOMAIN r.ghost_map : r.ghost_map[p].frame_id = f}

\* One of the four lists holds the id f: f itself in a resident list, or a
\* page evicted from f in a ghost list.
Held(r, f) ==
  \/ InSeq(f, r.mru) \/ InSeq(f, r.mfu)
  \/ \E p \in GhostsOf(r, f) : InSeq(p, r.mru_ghost) \/ InSeq(p, r.mfu_ghost)

\* C29: Remove deletes the id from whichever of the four lists holds it:
\* after Remove the id is in none of the lists and in neither alive_map_ nor
\* ghost_map_; if no list held it, nothing has changed.
C29_RemoveForgetsTheId ==
  call.op = "Remove" =>
    IF Held(before, call.frame_id)
    THEN /\ ~Held(replacer, call.frame_id)
         /\ call.frame_id \notin DOMAIN replacer.alive_map
         /\ GhostsOf(replacer, call.frame_id) = {}
    ELSE replacer = before


\* The replacers that the calls of the threads ts give when made one after
\* the other on r, in any order.
RECURSIVE SerialOutcomes(_, _)
SerialOutcomes(r, ts) ==
  IF ts = {}
  THEN {r}
  ELSE UNION {SerialOutcomes(ApplyCall(r, pc[t]), ts \ {t}) : t \in ts}

\* C30: when the calls that the threads made at the same time have all
\* returned, the replacer is one that some serial order of these calls gives.
C30_ConcurrentCallsSerializable ==
  (\A t \in Threads : pc[t].op = "done") => replacer \in SerialOutcomes(before, Threads)


(* ---------------- more claims about the pool ---------------- *)
\* The replacer holds frame f evictable.
HeldEvictable(f) == f \in DOMAIN replacer.alive_map /\ replacer.alive_map[f].evictable

\* C25: for every resident frame, the replacer holds it evictable exactly
\* when its pin_count is 0.
C25_EvictableIffUnpinned ==
  \A f \in Frames : Resident(f) => (HeldEvictable(f) <=> frames[f].pin_count = 0)

\* The number of times frame f occurs in the free list.
TimesFree(f) == Cardinality({i \in 1 .. Len(free_frames) : free_frames[i] = f})

\* C27: no frame id occurs twice in the free list, and no frame of the free
\* list is the target of a page-table entry.
C27_FreeListHoldsUnmappedFramesOnce ==
  \A f \in Frames :
    /\ TimesFree(f) <= 1
    /\ TimesFree(f) = 1 => ~Resident(f)

\* C28: every page-table entry is for a valid page id and names a frame
\* whose page id is the key, every frame that holds a page has its entry,
\* and no two page ids map to the same frame.
C28_PageTableMatchesFrames ==
  /\ \A p \in DOMAIN page_table :
        /\ p # INVALID_PAGE_ID
        /\ page_table[p] \in Frames
        /\ frames[page_table[p]].page_id = p
  /\ \A f \in Frames :
        frames[f].page_id # INVALID_PAGE_ID =>
          (frames[f].page_id \in DOMAIN page_table /\ page_table[frames[f].page_id] = f)
  /\ \A p \in DOMAIN page_table, q \in DOMAIN page_table :
        page_table[p] = page_table[q] => p = q


\* A page has been evicted (it is remembered in a ghost list), a page has
\* been deleted since, and the free list holds its frame while another page
\* is cached.
C27_Witness ==
  /\ replacer.mru_ghost \o replacer.mfu_ghost # <<>>
  /\ free_frames # <<>>
  /\ page_table # EmptyMap
  /\ next_page_id > NumFrames


(***************************************************************************)
(* Threads that also flush pages.  FlushPage is split where its thread can *)
(* be seen waiting: at the std::unique_lock on bpm_latch_ and inside the   *)
(* synchronous disk_scheduler_->Write.                                     *)
(***************************************************************************)
\* Thread t calls bpm->FlushPage(p).
ThreadFlushPage(t, p) ==
  /\ ThreadCall(t)
  /\ p < next_page_id
  /\ pc' = [pc EXCEPT ![t] = [Idle EXCEPT !.op = "flush", !.page = p]]
  /\ victim' = {}
  /\ UNCHANGED <<page_table, free_frames, frames, next_page_id, replacer, disk,
                 guards, lastw, trapped, bpm_latch>>

\* FlushPage takes the pool's mutex and looks the page up: without an entry
\* it returns false, with one it hands the frame's bytes to
\* disk_scheduler_->Write, and the lock object lives until the return.
FlushLock(t) ==
  /\ pc[t].op = "flush"
  /\ bpm_latch = NoThread
  /\ IF pc[t].page \in DOMAIN page_table
     THEN /\ pc' = [pc EXCEPT ![t] = [@ EXCEPT !.op = "io", !.frame = {page_table[pc[t].page]}]]
          /\ bpm_latch' = KeepBpm(t)
     ELSE /\ pc' = [pc EXCEPT ![t] = Idle]
          /\ bpm_latch' = NoThread
  /\ victim' = {}
  /\ UNCHANGED <<page_table, free_frames, frames, next_page_id, replacer, disk,
                 guards, lastw, trapped, ops, treeVars>>

\* disk_manager_->WritePage completes; FlushPage resets the frame and
\* returns true, which releases the mutex.
FlushWritten(t) ==
  /\ pc[t].op = "io"
  /\ SetPool(FlushPage(PoolState, pc[t].page))
  /\ pc' = [pc EXCEPT ![t] = Idle]
  /\ bpm_latch' = ReturnBpm(t)
  /\ victim' = {}
  /\ UNCHANGED <<guards, lastw, trapped, ops, treeVars>>

ConcFlushNext ==
  \/ ConcStep
  \/ \E t \in Threads, p \in Pages : ThreadFlushPage(t, p)
  \/ \E t \in Threads : FlushLock(t)
  \/ \E t \in Threads : FlushWritten(t)

SpecConcFlush == Init /\ [][ConcFlushNext]_vars

\* Thread t waits for a frame's rwlatch_ that another guard holds.
WaitsForFrameLatch(t) ==
  /\ pc[t].op = "ctor"
  /\ \E f \in pc[t].frame : ~LatchFree(f, pc[t].kind)

\* Thread t is inside a disk write that has not returned.
DiskWriteOutstanding(t) == pc[t].op = "io"

\* C26: no thread holds the pool latch while it waits for a frame's
\* rw-latch or while a disk write it issued is outstanding.
C26_PoolLatchNotHeldAcrossWaits ==
  \A t \in Threads :
     (WaitsForFrameLatch(t) \/ DiskWriteOutstanding(t)) => bpm_latch # t


(***************************************************************************)
(* Threads that allocate pages.  NewPage is split where other threads can  *)
(* run between its parts: after the test of free_frames_.empty(), which    *)
(* holds no lock, and after Cut, which gives the mutex back before the     *)
(* std::unique_lock of the removal is taken.                               *)
(***************************************************************************)
\* The calls of NewPage that have passed the emptiness test and not returned.
InNewPage == {t \in Threads : pc[t].op \in {"evict", "pop"}}

\* Thread t calls bpm->NewPage() and evaluates free_frames_.empty().
NewPageTest(t) ==
  /\ ThreadCall(t)
  /\ next_page_id + Cardinality(InNewPage) < MaxPages
  /\ pc' = [pc EXCEPT ![t] = [Idle EXCEPT !.op = IF free_frames = <<>> THEN "evict" ELSE "pop"]]
  /\ victim' = {}
  /\ UNCHANGED <<page_table, free_frames, frames, next_page_id, replacer, disk,
                 guards, lastw, trapped, bpm_latch>>

\* The branch of the empty list: replacer_->Evict(), then Cut of the victim,
\* which pushes it onto the free list; without a victim the call returns -1.
NewPageEvict(t) ==
  /\ pc[t].op = "evict"
  /\ bpm_latch = NoThread
  /\ \E e \in {Evict(replacer)} :
        IF e.res = {}
        THEN /\ pc' = [pc EXCEPT ![t] = Idle]
             /\ victim' = {}
             /\ UNCHANGED <<page_table, free_frames, frames, next_page_id, replacer, disk>>
        ELSE /\ SetPool(Cut([PoolState EXCEPT !.rep = e.rep], CHOOSE v \in e.res : TRUE))
             /\ victim' = e.res
             /\ pc' = [pc EXCEPT ![t] = [@ EXCEPT !.op = "pop"]]
  /\ UNCHANGED <<guards, lastw, trapped, ops, bpm_latch, treeVars>>

\* The removal under std::unique_lock: next_page_id_.fetch_add(1),
\* free_frames_.front(), pop_front(), and the new page's entry.  On an empty
\* list front() and pop_front() are undefined: the process is stopped, or
\* some frame id is read and the call goes on with it.
NewPagePop(t) ==
  /\ pc[t].op = "pop"
  /\ bpm_latch = NoThread
  /\ IF free_frames # <<>>
     THEN /\ SetPool(NewPage(PoolState).st)
          /\ UNCHANGED trapped
     ELSE \/ /\ trapped' = TRUE
             /\ UNCHANGED <<page_table, free_frames, frames, next_page_id, replacer, disk>>
          \/ \E f \in Frames :
                /\ next_page_id' = next_page_id + 1
                /\ frames' = [frames EXCEPT ![f].page_id = next_page_id]
                /\ page_table' = MapPut(page_table, next_page_id, f)
                /\ UNCHANGED <<free_frames, replacer, disk, trapped>>
  /\ pc' = [pc EXCEPT ![t] = Idle]
  /\ victim' = {}
  /\ UNCHANGED <<guards, lastw, ops, bpm_latch, treeVars>>

ConcAllocNext ==
  \/ \E t \in Threads : NewPageTest(t)
  \/ \E t \in Threads : NewPageEvict(t)
  \/ \E t \in Threads : NewPagePop(t)
  \/ \E t \in Threads, g \in Guards, kind \in {"r", "w"}, p \in Pages : CheckedPageCall(t, g, kind, p)
  \/ \E t \in Threads : CheckedPageBody(t)
  \/ \E t \in Threads : GuardCtor(t)
  \/ \E t \in Threads, g \in Guards : DropUnlock(t, g)
  \/ \E t \in Threads : DropRelease(t)

SpecConcAlloc == Init /\ [][ConcAllocNext]_vars

\* Thread t removes a frame from the free list in this step.
TakesFrame(t) == pc[t].op = "pop" /\ pc'[t].op = "idle"

\* C40: under every interleaving of NewPage, CheckedReadPage and
\* CheckedWritePage, a thread removes a frame from the free list only when
\* the list is non-empty at that moment, and no frame is the frame of two
\* pages.
C40_FreeListUseIsAtomic ==
  /\ [][\A t \in Threads : TakesFrame(t) => free_frames # <<>>]_vars
  /\ [](\A p \in DOMAIN page_table, q \in DOMAIN page_table :
           page_table[p] = page_table[q] => p = q)


(***************************************************************************)
(* Claims about what a flush leaves alone, checked under Spec.             *)
(***************************************************************************)
\* The step is a call of FlushPage or of FlushAllPages.
FlushStep == (\E p \in Pages : DoFlushPage(p)) \/ DoFlushAllPages

\* C37: FlushPage and FlushAllPages change only the on-disk copy and the
\* dirty flag: the bytes in memory, the pin count, the page id of every
\* frame and the page table are the same after the flush as before it.
C37_FlushKeepsFramesAndTable ==
  [][FlushStep =>
        /\ page_table' = page_table
        /\ \A f \in Frames :
              /\ frames'[f].data = frames[f].data
              /\ frames'[f].pin_count = frames[f].pin_count
              /\ frames'[f].page_id = frames[f].page_id]_vars


\* Guard variable g has been released: it was constructed on a frame and
\* Drop has run on it.
Released(g) == guards[g].kind # "none" /\ guards[g].frame # {} /\ ~guards[g].is_valid

\* C36: a second release of a guard, by Drop or by the destructor, changes
\* neither a frame's pin count or dirty flag, nor a latch, nor the
\* replacer.
C36_SecondReleaseChangesNothing ==
  [][\A g \in Guards :
        (Released(g) /\ (DoDrop(g) \/ Destroy(g))) =>
           /\ frames' = frames
           /\ replacer' = replacer
           /\ \A h \in Guards \ {g} : guards'[h] = guards[h]]_vars


\* C38: every frame that is resident in the replacer (in mru_ or mfu_) is
\* the target of a page-table entry, and none is on the free list.
C38_ReplacerFramesAreMapped ==
  \A f \in Frames :
     (InSeq(f, replacer.mru) \/ InSeq(f, replacer.mfu)) =>
        /\ Resident(f)
        /\ TimesFree(f) = 0


(***************************************************************************)
(* Claims about the shape of the tree, checked under the tree's            *)
(* specifications.                                                         *)
(***************************************************************************)
\* The children an internal page lists.
ChildrenOf(pg) == {At(pg.vals, i) : i \in 0 .. (pg.size - 1)}

\* The pages reached from page pid by following child pointers.
RECURSIVE Reach(_, _, _)
Reach(t, pid, fuel) ==
  IF pid = INVALID_PAGE_ID \/ ~Allocated(t, pid) \/ fuel = 0 THEN {}
  ELSE IF IsLeafPage(PageAt(t, pid)) THEN {pid}
  ELSE {pid} \cup UNION {Reach(t, c, fuel - 1) : c \in ChildrenOf(PageAt(t, pid))}

TreeNodes(t) == Reach(t, t.root, MaxWalk)

InternalNodes(t) == {p \in TreeNodes(t) : ~IsLeafPage(PageAt(t, p))}

\* The height of the tree: the pages on the path from the root to the
\* leftmost leaf.
RECURSIVE HeightFrom(_, _, _)
HeightFrom(t, pid, fuel) ==
  IF pid = INVALID_PAGE_ID \/ ~Allocated(t, pid) \/ fuel = 0 THEN 0
  ELSE IF IsLeafPage(PageAt(t, pid)) THEN 1
  ELSE 1 + HeightFrom(t, At(PageAt(t, pid).vals, 0), fuel - 1)

Height(t) == HeightFrom(t, t.root, MaxWalk)

\* A call of Insert or Remove has just returned without a fault.
CallCompleted == call.op \in {"Insert", "Remove"} /\ bpt.fault = {}

\* C33: after every completed Insert or Remove, each node that an internal
\* node of the tree lists as a child has that internal node's id as its
\* parent_page_id.
C33_ParentIdsNameTheListingNode ==
  CallCompleted =>
     \A p \in InternalNodes(bpt) :
        \A c \in ChildrenOf(PageAt(bpt, p)) :
           Allocated(bpt, c) => PageAt(bpt, c).father = p


\* The root of tree t is an internal page with n children.
RootIsInternalOf(t, n) ==
  /\ Allocated(t, t.root)
  /\ ~IsLeafPage(PageAt(t, t.root))
  /\ PageAt(t, t.root).size = n

\* C34: a Remove that finds the root an internal page with two children
\* does not leave that page as the root with a single child: the child is
\* promoted and the header names it.
C34_SingleChildIsPromoted ==
  (CallCompleted /\ call.op = "Remove" /\ RootIsInternalOf(before, 2))
     => ~(bpt.root = before.root /\ RootIsInternalOf(bpt, 1))


(***************************************************************************)
(* IndexIterator over the leaves of a tree.  The leaves are the pages of   *)
(* the pool in the order of their allocation, each linked to the page      *)
(* allocated after it; what a leaf holds is an input of operator++, which  *)
(* either stays in its leaf or has come to the leaf's end.  The statement  *)
(* guard_ = bpm_->ReadPage(next_page_id) is split in two: the call that    *)
(* returns the temporary guard, and the move assignment to guard_.         *)
(***************************************************************************)
\* The thread that owns the iterator, its member guard_ and the temporary
\* that ReadPage returns.
IterThread == CHOOSE t \in Threads : \A u \in Threads : t <= u

IterGuard == CHOOSE g \in Guards : \A h \in Guards : g <= h

IterTemp == IterGuard + 1

\* page_->GetNextPageId() of leaf p.
NextLeaf(p) == IF p + 1 < next_page_id THEN p + 1 ELSE INVALID_PAGE_ID

IterStep ==
  /\ ~trapped
  /\ ops < MaxOps
  /\ ops' = ops + 1
  /\ UNCHANGED <<bpm_latch, lastw, treeVars>>

\* h = bpm_->ReadPage(p): a read guard on the page, or std::abort() when
\* CheckedReadPage has no frame to give.
ReadPageInto(h, p) ==
  \E r \in {FetchPage(PoolState, p, FALSE)} :
     /\ victim' = r.victim
     /\ IF r.frame = {}
        THEN /\ SetPool(r.st)
             /\ trapped' = TRUE
             /\ UNCHANGED guards
        ELSE \E f \in r.frame :
                /\ LatchFree(f, "r")
                /\ SetPool([r.st EXCEPT !.rep = RecordAccess(@, f, p)])
                /\ guards' = [guards EXCEPT ![h] = NewGuard("r", p, f)]
                /\ UNCHANGED trapped

\* IndexIterator(bpm, page_id) on a leaf.
IterCtor(p) ==
  /\ IterStep
  /\ pc[IterThread].op = "idle"
  /\ guards[IterGuard].kind = "none"
  /\ p < next_page_id
  /\ ReadPageInto(IterGuard, p)
  /\ pc' = [pc EXCEPT ![IterThread] = [Idle EXCEPT !.op = "it", !.g = IterGuard, !.page = p]]

\* operator++ that finds another slot in its leaf.
IterStay ==
  /\ IterStep
  /\ pc[IterThread].op = "it"
  /\ victim' = {}
  /\ UNCHANGED <<page_table, free_frames, frames, next_page_id, replacer, disk,
                 guards, trapped, pc>>

\* operator++ at the end of a leaf that has a next leaf, up to the return of
\* bpm_->ReadPage(next_page_id).
IterFetchNext ==
  /\ IterStep
  /\ pc[IterThread].op = "it"
  /\ NextLeaf(pc[IterThread].page) # INVALID_PAGE_ID
  /\ ReadPageInto(IterTemp, NextLeaf(pc[IterThread].page))
  /\ pc' = [pc EXCEPT ![IterThread] = [@ EXCEPT !.op = "assign"]]

\* The move assignment to guard_ (Drop of guard_, then the members of the
\* temporary), the destructor of the temporary, and the rest of operator++.
IterAssign ==
  /\ ~trapped
  /\ pc[IterThread].op = "assign"
  /\ LET d == Drop(PoolState, guards[IterGuard])
     IN /\ SetPool(d.st)
        /\ guards' = [guards EXCEPT ![IterGuard] = MovedTo(guards[IterTemp]),
                                    ![IterTemp] = DefaultGuard]
  /\ pc' = [pc EXCEPT ![IterThread] = [@ EXCEPT !.op = "it", !.page = NextLeaf(@)]]
  /\ victim' = {}
  /\ UNCHANGED <<lastw, trapped, ops, bpm_latch, treeVars>>

\* operator++ at the end of the last leaf: page_id_ = INVALID_PAGE_ID, and
\* guard_ is left as it is.
IterReachEnd ==
  /\ IterStep
  /\ pc[IterThread].op = "it"
  /\ NextLeaf(pc[IterThread].page) = INVALID_PAGE_ID
  /\ pc' = [pc EXCEPT ![IterThread] = [@ EXCEPT !.op = "end", !.page = INVALID_PAGE_ID]]
  /\ victim' = {}
  /\ UNCHANGED <<page_table, free_frames, frames, next_page_id, replacer, disk,
                 guards, trapped>>

\* ~IndexIterator: the destructor of guard_.
IterDestroy ==
  /\ IterStep
  /\ pc[IterThread].op \in {"it", "end"}
  /\ SetPool(Drop(PoolState, guards[IterGuard]).st)
  /\ guards' = [guards EXCEPT ![IterGuard] = DefaultGuard]
  /\ pc' = [pc EXCEPT ![IterThread] = Idle]
  /\ victim' = {}
  /\ UNCHANGED trapped

IterNext ==
  \/ DoNewPage
  \/ \E p \in Pages : IterCtor(p)
  \/ IterStay
  \/ IterFetchNext
  \/ IterAssign
  \/ IterReachEnd
  \/ IterDestroy

SpecIter == Init /\ [][IterNext]_vars

\* C35: the iterator never holds guards on two leaves at once: while guard_
\* is live on a leaf no other guard of the iterator is live.
C35_IteratorHoldsOneLeafAtATime ==
  ~(Live(IterGuard) /\ Live(IterTemp) /\ guards[IterGuard].page_id # guards[IterTemp].page_id)


(***************************************************************************)
(* Claims about threads in the tree, checked under SpecTreeConc.           *)
(***************************************************************************)
\* Thread t has read root_page_id_, has decided to make a root and has not
\* written the header page yet.
DecidedRootChange(t) == pc[t].op = "NewRoot"

\* C31: from the read of root_page_id_ on which a thread decides to change
\* the root until that thread writes the new root id, no other thread
\* changes the root.
C31_NoRootChangeInsideRootChange ==
  [][\A t \in Threads :
        (DecidedRootChange(t) /\ bpt'.root # bpt.root) => ~DecidedRootChange(t)']_vars


\* Thread t reads header_page_read->root_page_id_ to go on into the tree.
ReadsRootId(t) == pc[t].op = "IntoTree" /\ pc'[t].op = "idle"

\* C32: a thread reads the root id of the header page only while it holds
\* a live guard on the header page.
C32_HeaderReadUnderGuard ==
  [][\A t \in Threads : ReadsRootId(t) => pc[t].kind \in {"r", "w"}]_vars


\* C39: Insert(k, v) and Remove(k) change the lookup result of key k only:
\* every other key is found with the same value, or is absent, after the
\* call as before it.
C39_OtherKeysKeepTheirLookup ==
  call.op \in {"Insert", "Remove"} =>
     \A j \in Keys \ {call.key} :
        GetValue(before, j).defined =>
           /\ GetValue(bpt, j).defined
           /\ GetValue(bpt, j).result = GetValue(before, j).result

====
